---- MODULE Spec2Model ----
(***************************************************************************)
(* A model of the risk-and-sizing core of the trading toolkit:             *)
(*   src/src/trading/risk.py       check_trade                             *)
(*   src/src/trading/engine.py     open_position, create_limit_order,      *)
(*                                 close_position                          *)
(*   src/src/trading/atr_stops.py  calculate_atr_stops,                    *)
(*                                 calculate_chandelier_stops,             *)
(*                                 calculate_position_size                 *)
(*   src/src/market/indicators.py  atr, chandelier_exit, supertrend        *)
(*                                                                         *)
(* Numbers.  The code computes in binary floating point; the model         *)
(* computes in exact arithmetic.  In the engine part money is in whole     *)
(* dollars and the fractional limits of RiskLimits are in basis points     *)
(* (0.10 is 1000), compared by cross-multiplication.  In the stop and      *)
(* sizing part every quantity is an exact rational [n, d] (d > 0, lowest   *)
(* terms) and round(x, k) is modelled as rounding to the nearest multiple  *)
(* of 10^-k, ties to even.                                                 *)
(***************************************************************************)
EXTENDS Integers, Sequences, FiniteSets, TLC

VARIABLES
    trade_log,        \* rows of table trade_log written so far (status of each)
    position_closes,  \* rows of table position_closes of today and the current mode
    pc,               \* "idle", or "returned" while the caller holds a result
    call,             \* the engine call that has just returned (inputs, trace, result)
    ps_in, ps_out,    \* calculate_position_size: arguments and returned dict
    st_in, st_out,    \* calculate_atr_stops: arguments and returned dict
    ch_in, ch_out,    \* calculate_chandelier_stops: arguments and returned dict
    ind_in, ind_out,  \* supertrend / chandelier_exit: arguments and returned series
    rg_in, rg_out,    \* analyze_market_regime: what its three fetches answer, and its result
    fn_in, fn_out     \* ma_alignment / support_resistance: arguments and returned dict

vars == <<trade_log, position_closes, pc, call, ps_in, ps_out, st_in, st_out, ch_in, ch_out,
          ind_in, ind_out, rg_in, rg_out, fn_in, fn_out>>

engine_vars == <<trade_log, position_closes, pc, call>>
sizing_vars == <<ps_in, ps_out>>
stops_vars  == <<st_in, st_out>>
chand_vars  == <<ch_in, ch_out>>
ind_vars    == <<ind_in, ind_out>>
regime_vars == <<rg_in, rg_out>>
fn_vars     == <<fn_in, fn_out>>

(***************************************************************************)
(* Sequence helpers                                                        *)
(***************************************************************************)
RECURSIVE SeqSum(_)
SeqSum(s) == IF s = <<>> THEN 0 ELSE Head(s) + SeqSum(Tail(s))

Count(s, x) == Cardinality({i \in 1..Len(s) : s[i] = x})

Contains(s, x) == \E i \in 1..Len(s) : s[i] = x

\* s is a subsequence of the fixed order `order`, each tag at most once
InOrderOf(s, order) ==
    /\ \A i \in 1..Len(s) : Contains(order, s[i])
    /\ \A i, j \in 1..Len(s) :
         i < j => \E a, b \in 1..Len(order) : a < b /\ order[a] = s[i] /\ order[b] = s[j]

(***************************************************************************)
(* config.py: the risk limit profiles.  Fractions are in basis points.     *)
(***************************************************************************)
RiskLimits ==
    [ max_position_pct        |-> 1000,   \* 0.10
      max_total_exposure_pct  |-> 9000,   \* 0.90
      max_daily_loss_pct      |-> 300,    \* 0.03
      max_single_trade_usd    |-> 1000,
      min_trade_usd           |-> 10,
      max_open_positions      |-> 20,
      default_stop_loss_pct   |-> 5,
      default_take_profit_pct |-> 15,
      max_leverage            |-> 1 ]

AggressiveRiskLimits ==
    [ max_position_pct        |-> 2000,   \* 0.20
      max_total_exposure_pct  |-> 9500,   \* 0.95
      max_daily_loss_pct      |-> 500,    \* 0.05
      max_single_trade_usd    |-> 5000,
      min_trade_usd           |-> 50,
      max_open_positions      |-> 20,
      default_stop_loss_pct   |-> 8,
      default_take_profit_pct |-> 20,
      max_leverage            |-> 1 ]

\* settings.risk: the configured defaults
SettingsRisk == RiskLimits

\* A caller-built RiskLimits(...) whose size window is empty (min above max),
\* whose position cap is 1 and whose fractional limits are tight, so that
\* several hard checks can fail in one call.
TightLimits ==
    [ max_position_pct        |-> 400,
      max_total_exposure_pct  |-> 7500,
      max_daily_loss_pct      |-> 200,
      max_single_trade_usd    |-> 400,
      min_trade_usd           |-> 600,
      max_open_positions      |-> 1,
      default_stop_loss_pct   |-> 5,
      default_take_profit_pct |-> 15,
      max_leverage            |-> 2 ]

\* limits_override: None, or a RiskLimits object
NoOverride == [present |-> FALSE, limits |-> RiskLimits]
Override(l) == [present |-> TRUE, limits |-> l]

\* limits = limits_override or settings.risk
ActiveLimits(limits_override) ==
    IF limits_override.present THEN limits_override.limits ELSE SettingsRisk

(***************************************************************************)
(* api/models.py: PortfolioSummary                                         *)
(***************************************************************************)
TotalValue(p) == p.total_invested + p.total_pnl + p.cash_available

(***************************************************************************)
(* storage/repositories.py: TradeLogRepo                                   *)
(***************************************************************************)
\* A row of position_closes: pnl is a REAL column that may be NULL.  Beside
\* the columns the model keeps who wrote the row (closed_by) and the P&L the
\* broker realized on the position when this row's close went through.
CloseRow(has_pnl, pnl) ==
    [ has_pnl |-> has_pnl, pnl |-> IF has_pnl THEN pnl ELSE 0,
      closed_by |-> "log_close", realized |-> IF has_pnl THEN pnl ELSE 0 ]

\* the row close_position writes (engine.py 164, 174): pnl=None in both branches
EngineCloseRow(closed, realized) ==
    [ CloseRow(FALSE, 0) EXCEPT !.closed_by = "close_position",
                                !.realized = IF closed THEN realized ELSE 0 ]

RECURSIVE SumPnl(_)
\* SUM(pnl) over the rows, NULLs skipped; COALESCE(.., 0) for no rows
SumPnl(rows) ==
    IF rows = <<>> THEN 0
    ELSE (IF Head(rows).has_pnl THEN Head(rows).pnl ELSE 0) + SumPnl(Tail(rows))

\* get_today_stats()["realized_pnl"] over today's rows of the current mode
get_today_stats(rows) == [realized_pnl |-> SumPnl(rows), trades_count |-> Len(rows)]

(***************************************************************************)
(* trading/risk.py: check_trade.  Violations and warnings are modelled by  *)
(* a tag per message.                                                      *)
(***************************************************************************)
\* the size checks chained with elif: only the first one can fire
SizeViolationsElif(amount, limits) ==
    IF amount < limits.min_trade_usd THEN <<"below_minimum">>
    ELSE IF amount > limits.max_single_trade_usd THEN <<"exceeds_maximum">> ELSE <<>>

\* 1. Trade size limits (two independent ifs)
SizeViolations(amount, limits) ==
    (IF amount < limits.min_trade_usd THEN <<"below_minimum">> ELSE <<>>)
    \o (IF amount > limits.max_single_trade_usd THEN <<"exceeds_maximum">> ELSE <<>>)

\* 2. Leverage limit
LeverageViolations(leverage, limits) ==
    IF leverage > limits.max_leverage THEN <<"leverage">> ELSE <<>>

\* 4. Max open positions
PositionCountViolations(p, limits) ==
    IF p.n_positions >= limits.max_open_positions THEN <<"max_positions">> ELSE <<>>

\* 5. Total exposure: new_exposure = (total_invested + amount) / total_value
ExposureViolations(p, amount, limits) ==
    IF TotalValue(p) > 0
       /\ (p.total_invested + amount) * 10000 > limits.max_total_exposure_pct * TotalValue(p)
    THEN <<"exposure">> ELSE <<>>

\* the 0.80 of the high-exposure warning, in basis points
HighExposureWarnPct == 8000

\* the warning as an elif of the violation under the configured limit
ExposureWarningsElif(p, amount) ==
    IF TotalValue(p) > 0
       /\ (p.total_invested + amount) * 10000 > HighExposureWarnPct * TotalValue(p)
       /\ (p.total_invested + amount) * 10000 =< SettingsRisk.max_total_exposure_pct * TotalValue(p)
    THEN <<"high_exposure">> ELSE <<>>
ExposureWarnings(p, amount) ==
    IF TotalValue(p) > 0
       /\ (p.total_invested + amount) * 10000 > HighExposureWarnPct * TotalValue(p)
    THEN <<"high_exposure">> ELSE <<>>

\* 6. Single position concentration: position_pct = amount / total_value
ConcentrationViolations(p, amount, limits) ==
    IF TotalValue(p) > 0 /\ amount * 10000 > limits.max_position_pct * TotalValue(p)
    THEN <<"concentration">> ELSE <<>>

\* 7. Daily loss check; stats.ok = FALSE when reading the trade log raises
DailyLossViolationsStrict(p, stats, limits) ==
    IF stats.ok
       /\ TotalValue(p) > 0
       /\ stats.realized_pnl < 0
       /\ (0 - stats.realized_pnl) * 10000 > limits.max_daily_loss_pct * TotalValue(p)
    THEN <<"daily_loss">> ELSE <<>>
DailyLossViolations(p, stats, limits) ==
    IF stats.ok
       /\ TotalValue(p) > 0
       /\ stats.realized_pnl < 0
       /\ (0 - stats.realized_pnl) * 10000 >= limits.max_daily_loss_pct * TotalValue(p)
    THEN <<"daily_loss">> ELSE <<>>

\* 9. CFD / leverage warnings
CfdWarnings(direction, leverage) ==
    (IF leverage > 1 THEN <<"leveraged">> ELSE <<>>)
    \o (IF direction = "SELL" THEN <<"short">> ELSE <<>>)

\* an early return that forgets what checks 1-2 found
EarlyReturnForgetful(violations) ==
    [ passed     |-> TRUE,
      raised     |-> FALSE,
      violations |-> <<>>,
      warnings   |-> <<"fetch_failed">>,
      events     |-> <<"check_trade", "get_portfolio">> ]

\* The early return after a failed portfolio fetch (risk.py 49-51); the
\* except clause catches every Exception, so nothing is raised
EarlyReturn(violations) ==
    [ passed     |-> Len(violations) = 0,
      raised     |-> FALSE,
      violations |-> violations,
      warnings   |-> <<"fetch_failed">>,
      events     |-> <<"check_trade", "get_portfolio">> ]

\* a final return where a warning also fails the check
FinalReturnStrict(violations, warnings) ==
    [ passed     |-> Len(violations) = 0 /\ Len(warnings) = 0,
      raised     |-> FALSE,
      violations |-> violations,
      warnings   |-> warnings,
      events     |-> <<"check_trade", "get_portfolio", "get_today_stats">> ]

\* The final return (risk.py 99-103)
FinalReturn(violations, warnings) ==
    [ passed     |-> Len(violations) = 0,
      raised     |-> FALSE,
      violations |-> violations,
      warnings   |-> warnings,
      events     |-> <<"check_trade", "get_portfolio", "get_today_stats">> ]

\* check_trade(symbol, amount, direction, leverage, limits_override), with the
\* outcome pf of its get_portfolio() call and the outcome stats of its
\* get_today_stats() call.
check_trade_short_circuit(amount, direction, leverage, limits_override, pf, stats) ==
    LET limits == ActiveLimits(limits_override)
        first  == SizeViolations(amount, limits) \o LeverageViolations(leverage, limits)
    IN  IF first # <<>>
        THEN [ passed |-> FALSE, raised |-> FALSE, violations |-> first, warnings |-> <<>>,
               events |-> <<"check_trade">> ]
        ELSE IF ~pf.ok THEN EarlyReturn(first)
        ELSE FinalReturn(
                 PositionCountViolations(pf.snap, limits)
                 \o ExposureViolations(pf.snap, amount, limits)
                 \o ConcentrationViolations(pf.snap, amount, limits)
                 \o DailyLossViolations(pf.snap, stats, limits),
                 ExposureWarnings(pf.snap, amount) \o CfdWarnings(direction, leverage))
check_trade(amount, direction, leverage, limits_override, pf, stats) ==
    LET limits == ActiveLimits(limits_override)
        first  == SizeViolations(amount, limits) \o LeverageViolations(leverage, limits)
    IN  IF ~pf.ok
        THEN EarlyReturn(first)
        ELSE FinalReturn(
                 first
                 \o PositionCountViolations(pf.snap, limits)
                 \o ExposureViolations(pf.snap, amount, limits)
                 \o ConcentrationViolations(pf.snap, amount, limits)
                 \o DailyLossViolations(pf.snap, stats, limits),
                 ExposureWarnings(pf.snap, amount) \o CfdWarnings(direction, leverage))

\* RiskCheckResult.summary: its leading word and, when passed, the warning count
Summary(r) ==
    IF r.passed
    THEN [head |-> "PASSED", n_warnings |-> Len(r.warnings), listed |-> <<>>]
    ELSE [head |-> "REJECTED", n_warnings |-> 0, listed |-> r.violations]


(***************************************************************************)
(* api/client.py: EtoroClient.post through the retrying _request.          *)
(* resps[i] is the broker's answer to the i-th attempt: "ok" (2xx),        *)
(* "retryable" (HTTP 429/500/502/503/504) or "fatal" (anything else that   *)
(* raises).                                                                *)
(***************************************************************************)
\* stop_after_attempt(3)
MaxAttempts == 3

Answers == {"ok", "retryable", "fatal"}

\* the attempt whose answer ends the call
LastAttempt(resps) ==
    IF \E i \in 1..MaxAttempts : resps[i] # "retryable"
    THEN CHOOSE i \in 1..MaxAttempts :
             /\ resps[i] # "retryable"
             /\ \A j \in 1..(i - 1) : resps[j] = "retryable"
    ELSE MaxAttempts

\* sent: requests put on the wire; ok: whether post() returned a body
ClientPost(resps) ==
    [sent |-> LastAttempt(resps), ok |-> resps[LastAttempt(resps)] = "ok"]

\* the answer sequences that differ in what the client does
AnswerSeqs ==
    { <<"ok", "ok", "ok">>, <<"fatal", "ok", "ok">>,
      <<"retryable", "ok", "ok">>, <<"retryable", "retryable", "ok">>,
      <<"retryable", "retryable", "retryable">> }

(***************************************************************************)
(* trading/engine.py                                                       *)
(***************************************************************************)
NoRisk == [passed |-> FALSE, raised |-> FALSE, violations |-> <<>>, warnings |-> <<>>, events |-> <<>>]
NoPayload == [built |-> FALSE, IsBuy |-> FALSE, Amount |-> 0, Leverage |-> 0,
              sl_method |-> "none", tp_method |-> "none", TakeProfitRate |-> 0,
              IsTslEnabled |-> FALSE]
NoPost == [sent |-> 0, ok |-> FALSE]

Repeat(x, n) == [i \in 1..n |-> x]

\* what one engine call did: the external calls it made in order, the risk
\* result it obtained (checked = FALSE when check_trade was not reached), the
\* order payload, the client's work, the rows it appended to trade_log and
\* the TradeResult (raised = TRUE when an exception left the function)
Outcome(events, checked, risk, payload, post, log, success, raised) ==
    [ events |-> events, checked |-> checked, risk |-> risk, payload |-> payload,
      post |-> post, log |-> log, success |-> success, raised |-> raised ]

\* engine.py 74-105: which stop-loss method is chosen and where the
\* take-profit comes from.  df is "none", "short" (fewer than 22 bars),
\* "long" (calculate_chandelier_stops succeeds when price > 0) or "long_nan"
\* (it returns an error); atr_pos: atr_value is a positive number.
StopMethod(df, atr_pos, price_pos) ==
    IF df \in {"long", "long_nan"}
    THEN IF df = "long" /\ price_pos THEN "chandelier" ELSE "pct-fallback"
    ELSE IF atr_pos
         THEN IF price_pos THEN "atr" ELSE "pct"
         ELSE "pct"

TakeProfitMethod(df, atr_pos, price_pos) ==
    IF StopMethod(df, atr_pos, price_pos) = "atr" THEN "atr" ELSE "pct"

\* The instrument's rate (ask = bid) and the atr_value a caller passes.
RatePrice(rate) == IF rate = "ok" THEN 100 ELSE 0
AtrValue(atr_pos) == IF atr_pos THEN 4 ELSE 0

\* engine.py 45: tp_pct or active_limits.default_take_profit_pct (0: not given)
TpPct(tp_pct, limits_override) ==
    IF tp_pct # 0 THEN tp_pct ELSE ActiveLimits(limits_override).default_take_profit_pct

\* engine.py 77, in units of 0.0001: round(price * (1 +- tp_pct / 100), 4)
PctTakeProfit(price, tp_pct, direction) ==
    IF direction = "BUY" THEN price * (100 + tp_pct) * 100 ELSE price * (100 - tp_pct) * 100

\* atr_stops.py 38, 48-53, 57 with the default tp_multiplier = 3.0, in units
\* of 0.0001: what calculate_atr_stops(price, atr_value, direction) returns
\* as tp_rate
AtrTakeProfit(price, atr, direction) ==
    IF direction = "BUY" THEN (price + atr * 3) * 10000 ELSE (price - atr * 3) * 10000

\* engine.py 77, 97-101, 113: the ATR branch replaces the percentage rate
TakeProfitRate(price, atr, tp_pct, direction, tp_method) ==
    IF tp_method = "atr" THEN AtrTakeProfit(price, atr, direction)
    ELSE PctTakeProfit(price, tp_pct, direction)

\* engine.py 106-115
OpenPayload(amount, direction, leverage, trailing_sl, df, trend_up, atr_pos, price, tp_pct) ==
    [ built        |-> TRUE,
      IsBuy        |-> direction = "BUY",
      Amount       |-> amount,
      Leverage     |-> leverage,
      sl_method    |-> StopMethod(df, atr_pos, price > 0),
      tp_method    |-> TakeProfitMethod(df, atr_pos, price > 0),
      TakeProfitRate |-> TakeProfitRate(price, AtrValue(atr_pos), tp_pct, direction,
                                        TakeProfitMethod(df, atr_pos, price > 0)),
      IsTslEnabled |-> \/ trailing_sl
                       \/ /\ StopMethod(df, atr_pos, price > 0) = "chandelier"
                          /\ trend_up
                          /\ direction = "BUY" ]

\* a failed order request that leaves no row in the log
SubmitOrderQuietFailure(events, risk, payload, resps) ==
    LET post == ClientPost(resps)
        sent == events \o Repeat("POST", post.sent)
    IN  IF post.ok
        THEN Outcome(sent \o <<"log_trade">>, TRUE, risk, payload, post,
                     <<"executed">>, TRUE, FALSE)
        ELSE Outcome(sent, TRUE, risk, payload, post, <<>>, FALSE, FALSE)

\* engine.py 117-135 and 225-243: send the order, log the outcome
SubmitOrder(events, risk, payload, resps) ==
    LET post == ClientPost(resps)
        sent == events \o Repeat("POST", post.sent)
    IN  IF post.ok
        THEN Outcome(sent \o <<"log_trade">>, TRUE, risk, payload, post,
                     <<"executed">>, TRUE, FALSE)
        ELSE Outcome(sent \o <<"log_trade">>, TRUE, risk, payload, post,
                     <<"error">>, FALSE, FALSE)

\* a gate that lets every order through
RiskGateOpen(risk) == TRUE

\* engine.py 56-62 and 199-204: the risk gate.  The order is built and sent
\* only on the branch where risk.passed holds.
RiskGate(risk) == risk.passed

\* open_position.  env: resolve ("found", "not_found", "raises"), pf and stats
\* (the outcomes of check_trade's two reads), rate ("ok", "zero", "none",
\* "raises"), trend_up, resps.
open_position(amount, direction, tp_pct, leverage, limits_override, trailing_sl, df, atr_pos, env) ==
    LET risk == check_trade(amount, direction, leverage, limits_override, env.pf, env.stats)
        ev1  == <<"resolve_symbol">>
        ev2  == ev1 \o risk.events
        ev3  == ev2 \o <<"get_rate">>
    IN  IF env.resolve = "raises"
        THEN Outcome(ev1, FALSE, NoRisk, NoPayload, NoPost, <<>>, FALSE, TRUE)
        ELSE IF env.resolve = "not_found"
        THEN Outcome(ev1 \o <<"log_trade">>, FALSE, NoRisk, NoPayload, NoPost,
                     <<"error">>, FALSE, FALSE)
        ELSE IF ~RiskGate(risk)
        THEN Outcome(ev2 \o <<"log_trade">>, TRUE, risk, NoPayload, NoPost,
                     <<"rejected">>, FALSE, FALSE)
        ELSE IF env.rate = "raises"
        THEN Outcome(ev3, TRUE, risk, NoPayload, NoPost, <<>>, FALSE, TRUE)
        ELSE IF env.rate = "none"
        THEN Outcome(ev3 \o <<"log_trade">>, TRUE, risk, NoPayload, NoPost,
                     <<"error">>, FALSE, FALSE)
        ELSE SubmitOrder(ev3, risk,
                         OpenPayload(amount, direction, leverage, trailing_sl, df,
                                     env.trend_up, atr_pos, RatePrice(env.rate),
                                     TpPct(tp_pct, limits_override)),
                         env.resps)

\* engine.py 206-223
LimitPayload(amount, direction, leverage) ==
    [ built        |-> TRUE,
      IsBuy        |-> direction = "BUY",
      Amount       |-> amount,
      Leverage     |-> leverage,
      sl_method    |-> "pct",
      tp_method    |-> "pct",
      TakeProfitRate |-> PctTakeProfit(RatePrice("ok"), SettingsRisk.default_take_profit_pct,
                                       direction),
      IsTslEnabled |-> FALSE ]

\* create_limit_order: no limits override, no log row for an unknown symbol
create_limit_order(amount, direction, leverage, env) ==
    LET risk == check_trade(amount, direction, leverage, NoOverride, env.pf, env.stats)
        ev1  == <<"resolve_symbol">>
        ev2  == ev1 \o risk.events
    IN  IF env.resolve = "raises"
        THEN Outcome(ev1, FALSE, NoRisk, NoPayload, NoPost, <<>>, FALSE, TRUE)
        ELSE IF env.resolve = "not_found"
        THEN Outcome(ev1, FALSE, NoRisk, NoPayload, NoPost, <<>>, FALSE, FALSE)
        ELSE IF ~RiskGate(risk)
        THEN Outcome(ev2 \o <<"log_trade">>, TRUE, risk, NoPayload, NoPost,
                     <<"rejected">>, FALSE, FALSE)
        ELSE SubmitOrder(ev2, risk, LimitPayload(amount, direction, leverage), env.resps)


(***************************************************************************)
(* The engine as a state machine: one action per entry point.  Arguments   *)
(* and the answers of the collaborators (instrument lookup, portfolio      *)
(* fetch, trade-log read, rate fetch, broker) are drawn from small sets.   *)
(***************************************************************************)
MaxLog == 1       \* rows of trade_log the model lets the engine write
MaxCloses == 1    \* rows of position_closes the model lets it write

Amounts == {5, 500, 2000, 6000}
Directions == {"BUY", "SELL"}
Leverages == {1, 2}
Overrides == {NoOverride, Override(AggressiveRiskLimits), Override(TightLimits)}

Snapshot(n, invested, pnl, cash) ==
    [n_positions |-> n, total_invested |-> invested, total_pnl |-> pnl,
     cash_available |-> cash]

\* portfolio snapshots get_portfolio() may return
Snapshots ==
    { Snapshot(0, 0, 0, 0),             \* empty account, total_value = 0
      Snapshot(5, 5000, 200, 5000),     \* total_value 10200
      Snapshot(5, 8000, 200, 2000),     \* total_value 10200, 78% invested
      Snapshot(20, 7500, 0, 2500),      \* 20 positions, 75% invested, total_value 10000
      Snapshot(1, 1000, 0, 1000),       \* total_value 2000
      Snapshot(1, 1000, 0 - 1200, 100)  \* total_value -100
    }

FetchFailed == [ok |-> FALSE, snap |-> Snapshot(0, 0, 0, 0)]
Fetched(p) == [ok |-> TRUE, snap |-> p]
PortfolioFetches == {FetchFailed} \cup {Fetched(p) : p \in Snapshots}

StatsRaised == [ok |-> FALSE, realized_pnl |-> 0]
StatsRead(rows) == [ok |-> TRUE, realized_pnl |-> get_today_stats(rows).realized_pnl]
StatsReads(rows) == {StatsRaised, StatsRead(rows)}

\* realized P&L values written by callers of TradeLogRepo.log_close
ClosePnls == {0 - 300}

Env(resolve, pf, stats, rate, trend_up, resps) ==
    [resolve |-> resolve, pf |-> pf, stats |-> stats, rate |-> rate,
     trend_up |-> trend_up, resps |-> resps]

NoResps == <<"ok", "ok", "ok">>

\* the answers the environment can give, restricted to those the call
\* consults (the rest are held at a fixed value)
Resolves == {"found", "not_found", "raises"}
FetchesAfter(resolve) == IF resolve = "found" THEN PortfolioFetches ELSE {FetchFailed}
StatsAfter(pf, rows) == IF pf.ok THEN StatsReads(rows) ELSE {StatsRaised}

\* what follows a passed risk check in open_position: the rate fetch, the
\* inputs that shape the payload (trailing_sl, df, atr_value) and, with a
\* long df, the SuperTrend direction
Scene(rate, df, atr_pos, trailing_sl, trend_up) ==
    [rate |-> rate, df |-> df, atr_pos |-> atr_pos, trailing_sl |-> trailing_sl,
     trend_up |-> trend_up, tp_pct |-> 0]

\* the same call with a take-profit percentage of the caller's
WithTpPct(sc, tp_pct) == [sc EXCEPT !.tp_pct = tp_pct]

NoScene == Scene("ok", "none", FALSE, FALSE, FALSE)

Scenes ==
    { Scene("raises", "none", FALSE, FALSE, FALSE),
      Scene("none", "none", FALSE, FALSE, FALSE),
      Scene("ok", "none", FALSE, FALSE, FALSE),       \* percentage stop
      Scene("ok", "none", FALSE, TRUE, FALSE),        \* percentage stop, trailing asked
      Scene("ok", "none", TRUE, FALSE, FALSE),        \* ATR stop
      WithTpPct(Scene("ok", "none", FALSE, FALSE, FALSE), 10),  \* percentage stop
      WithTpPct(Scene("ok", "none", TRUE, FALSE, FALSE), 10),   \* ATR stop
      Scene("ok", "short", TRUE, FALSE, FALSE),       \* df too short: ATR stop
      Scene("ok", "long", FALSE, FALSE, TRUE),        \* Chandelier, trend up
      Scene("ok", "long", TRUE, FALSE, FALSE),        \* Chandelier, trend down
      Scene("ok", "long_nan", TRUE, FALSE, FALSE),    \* Chandelier fails
      Scene("zero", "none", TRUE, FALSE, FALSE),      \* price 0: ATR stops fail
      Scene("zero", "long", FALSE, FALSE, FALSE) }    \* price 0: Chandelier fails

\* The broker's answers to the order of a scene: every answer sequence for
\* the plain order (percentage stop, defaults), a first answer (accepted or
\* refused) for the others.
SceneAnswers(sc) ==
    IF sc = NoScene THEN AnswerSeqs
    ELSE {<<"ok", "ok", "ok">>, <<"fatal", "ok", "ok">>}

NoCall ==
    [ op |-> "none", amount |-> 0, direction |-> "BUY", leverage |-> 1,
      limits_override |-> NoOverride, env |-> Env("found", FetchFailed, StatsRaised, "ok", FALSE, NoResps),
      scene |-> NoScene,
      out |-> Outcome(<<>>, FALSE, NoRisk, NoPayload, NoPost, <<>>, FALSE, FALSE),
      log_before |-> 0 ]

Called(op, amount, direction, leverage, limits_override, env, out) ==
    [ op |-> op, amount |-> amount, direction |-> direction, leverage |-> leverage,
      limits_override |-> limits_override, env |-> env, scene |-> NoScene, out |-> out,
      log_before |-> Len(trade_log) ]

EngineInit ==
    /\ trade_log = <<>>
    /\ position_closes = <<>>
    /\ pc = "idle"
    /\ call = NoCall

\* check_trade called on its own (cli.py 580-581, tests)
CheckTrade ==
    /\ pc = "idle"
    /\ \E amount \in Amounts, direction \in Directions, leverage \in Leverages,
          limits_override \in Overrides, pf \in PortfolioFetches :
         \E stats \in StatsAfter(pf, position_closes) :
           LET env  == Env("found", pf, stats, "ok", FALSE, NoResps)
               risk == check_trade(amount, direction, leverage, limits_override, pf, stats)
           IN  call' = Called("check_trade", amount, direction, leverage, limits_override, env,
                              Outcome(risk.events, TRUE, risk, NoPayload, NoPost, <<>>,
                                      risk.passed, risk.raised))
    /\ pc' = "returned"
    /\ UNCHANGED <<trade_log, position_closes>>

OpenPosition ==
    /\ pc = "idle"
    /\ Len(trade_log) < MaxLog
    /\ \E amount \in Amounts, direction \in Directions, leverage \in Leverages,
          limits_override \in Overrides, resolve \in Resolves :
         \E pf \in FetchesAfter(resolve) :
         \E stats \in StatsAfter(pf, position_closes) :
           LET risk == check_trade(amount, direction, leverage, limits_override, pf, stats)
               gate == resolve = "found" /\ RiskGate(risk)
           IN  \E sc \in (IF gate THEN Scenes ELSE {NoScene}) :
               \E resps \in (IF gate /\ sc.rate \in {"ok", "zero"} THEN SceneAnswers(sc)
                             ELSE {NoResps}) :
                 LET env == Env(resolve, pf, stats, sc.rate, sc.trend_up, resps)
                     out == open_position(amount, direction, sc.tp_pct, leverage, limits_override,
                                          sc.trailing_sl, sc.df, sc.atr_pos, env)
                 IN  /\ call' = [Called("open_position", amount, direction, leverage,
                                        limits_override, env, out) EXCEPT !.scene = sc]
                     /\ trade_log' = trade_log \o out.log
    /\ pc' = "returned"
    /\ UNCHANGED position_closes

CreateLimitOrder ==
    /\ pc = "idle"
    /\ Len(trade_log) < MaxLog
    /\ \E amount \in Amounts, direction \in Directions, leverage \in Leverages,
          resolve \in Resolves :
         \E pf \in FetchesAfter(resolve) :
         \E stats \in StatsAfter(pf, position_closes) :
           LET risk == check_trade(amount, direction, leverage, NoOverride, pf, stats)
               gate == resolve = "found" /\ RiskGate(risk)
           IN  \E resps \in (IF gate THEN AnswerSeqs ELSE {NoResps}) :
                 LET env == Env(resolve, pf, stats, "ok", FALSE, resps)
                     out == create_limit_order(amount, direction, leverage, env)
                 IN  /\ call' = Called("create_limit_order", amount, direction, leverage,
                                       NoOverride, env, out)
                     /\ trade_log' = trade_log \o out.log
    /\ pc' = "returned"
    /\ UNCHANGED position_closes

\* close_position (engine.py 138-175).  lookup: "given" (instrument_id passed),
\* "found" / "missing" (looked up in the portfolio) or "raises" (the portfolio
\* fetch of the lookup raises).  Both the success and the failure branch
\* write a position_closes row with pnl = None.
\* realized: the P&L the broker realizes on the position when the close goes
\* through.
close_position(lookup, resps, realized) ==
    LET post == ClientPost(resps)
        ev   == IF lookup = "given" THEN <<>> ELSE <<"get_portfolio">>
    IN  IF lookup = "raises"
        THEN [events |-> ev, post |-> NoPost, closes |-> <<>>, success |-> FALSE, raised |-> TRUE]
        ELSE IF lookup = "missing"
        THEN [events |-> ev, post |-> NoPost, closes |-> <<>>, success |-> FALSE, raised |-> FALSE]
        ELSE [events  |-> ev \o Repeat("POST", post.sent) \o <<"log_close">>,
              post    |-> post,
              closes  |-> <<EngineCloseRow(post.ok, realized)>>,
              success |-> post.ok,
              raised  |-> FALSE]

ClosePosition ==
    /\ pc = "idle"
    /\ Len(position_closes) < MaxCloses
    /\ \E lookup \in {"given", "found", "missing", "raises"} :
       \E resps \in (IF lookup \in {"given", "found"} THEN AnswerSeqs ELSE {NoResps}) :
       \E realized \in (IF lookup \in {"given", "found"} THEN ClosePnls ELSE {0}) :
         LET r == close_position(lookup, resps, realized)
         IN  /\ position_closes' = position_closes \o r.closes
             /\ call' = [NoCall EXCEPT !.op = "close_position",
                                       !.env.resps = resps,
                                       !.out.events = r.events,
                                       !.out.post = r.post,
                                       !.out.success = r.success,
                                       !.out.raised = r.raised,
                                       !.log_before = Len(trade_log)]
    /\ pc' = "returned"
    /\ UNCHANGED trade_log

\* TradeLogRepo.log_close called with a realized P&L (repositories.py 77-89)
LogClose ==
    /\ pc = "idle"
    /\ Len(position_closes) < MaxCloses
    /\ \E pnl \in ClosePnls :
         position_closes' = Append(position_closes, CloseRow(TRUE, pnl))
    /\ UNCHANGED <<trade_log, pc, call>>

\* the caller takes the result; the engine is idle again
Return ==
    /\ pc = "returned"
    /\ pc' = "idle"
    /\ call' = NoCall
    /\ UNCHANGED <<trade_log, position_closes>>


(***************************************************************************)
(* Exact rationals [n, d] with d > 0 in lowest terms, and round(x, k).     *)
(***************************************************************************)
Abs(a) == IF a < 0 THEN 0 - a ELSE a

RECURSIVE GCD(_, _)
GCD(a, b) == IF b = 0 THEN a ELSE GCD(b, a % b)

\* n / d for d # 0
Rat(n, d) ==
    LET g == GCD(Abs(n), Abs(d))
        sgn == IF d < 0 THEN 0 - 1 ELSE 1
    IN  [n |-> sgn * (n \div g), d |-> sgn * (d \div g)]

R(i) == [n |-> i, d |-> 1]

RAdd(a, b) == Rat(a.n * b.d + b.n * a.d, a.d * b.d)
RSub(a, b) == Rat(a.n * b.d - b.n * a.d, a.d * b.d)
\* products are reduced crosswise before multiplying, to keep them small
RMul(a, b) ==
    LET g1 == GCD(Abs(a.n), b.d)
        g2 == GCD(Abs(b.n), a.d)
    IN  Rat((a.n \div g1) * (b.n \div g2), (a.d \div g2) * (b.d \div g1))
RDiv(a, b) == RMul(a, Rat(b.d, b.n))     \* b # 0
RLt(a, b) == a.n * b.d < b.n * a.d
RLe(a, b) == a.n * b.d <= b.n * a.d
REq(a, b) == a.n * b.d = b.n * a.d
RMin(a, b) == IF RLe(a, b) THEN a ELSE b
RMax(a, b) == IF RLe(a, b) THEN b ELSE a
RAbs(a) == [n |-> Abs(a.n), d |-> a.d]

\* round(x, k) as a whole number of units of 1/scale (scale = 10^k): the
\* nearest one, a tie going to the even neighbour.  The code rounds the binary
\* float nearest to x, so on an exact tie its result may be either neighbour.
RoundUnits(x, scale) ==
    LET whole == x.n \div x.d                 \* floor(x)
        num   == (x.n - whole * x.d) * scale  \* the fractional part, scaled
        q     == whole * scale + (num \div x.d)
        r     == num % x.d                    \* 0 <= r < d
    IN  IF 2 * r < x.d THEN q
        ELSE IF 2 * r > x.d THEN q + 1
        ELSE IF q % 2 = 0 THEN q ELSE q + 1

Cents(x) == RoundUnits(x, 100)


(***************************************************************************)
(* trading/atr_stops.py: calculate_position_size                           *)
(***************************************************************************)
\* sl_distance_pct: None, or a number
None == [given |-> FALSE, v |-> R(0)]
Some(x) == [given |-> TRUE, v |-> x]

\* conviction.lower()
Lower(c) ==
    CASE c = "STRONG" -> "strong"
      [] c = "Weak"   -> "weak"
      [] OTHER        -> c

\* _CONVICTION: (risk_pct_of_portfolio, max_concentration_pct)
Conviction(c) ==
    CASE c = "strong"   -> [risk_pct |-> Rat(2, 100),   max_concentration |-> Rat(8, 100)]
      [] c = "moderate" -> [risk_pct |-> Rat(15, 1000), max_concentration |-> Rat(5, 100)]
      [] c = "weak"     -> [risk_pct |-> Rat(1, 100),   max_concentration |-> Rat(3, 100)]

\* lines 181-183: unknown convictions become "moderate"
ConvictionUsed(c) ==
    IF Lower(c) \in {"strong", "moderate", "weak"} THEN Lower(c) ELSE "moderate"

\* lines 176-179: the two input guards
SizingInputError(a) ==
    \/ RLe(a.portfolio_value, R(0)) \/ RLe(a.price, R(0))
    \/ (RLe(a.atr, R(0)) /\ ~a.sl_distance_pct.given)

\* lines 189-193: the stop distance used for sizing
SlFraction(a) ==
    IF a.sl_distance_pct.given /\ RLt(R(0), a.sl_distance_pct.v)
    THEN a.sl_distance_pct.v
    ELSE RMax(Rat(1, 100), RMin(RDiv(RMul(a.atr, R(2)), a.price), Rat(15, 100)))

RiskBudget(a) == RMul(a.portfolio_value, Conviction(ConvictionUsed(a.conviction)).risk_pct)

\* line 196
RiskBasedAmount(a) == RDiv(RiskBudget(a), SlFraction(a))

\* line 199
ConcentrationCap(a) ==
    RMul(a.portfolio_value, Conviction(ConvictionUsed(a.conviction)).max_concentration)

\* all of the cash counted as usable
UsableCashNoBuffer(a) == RMax(R(0), a.cash_available)

\* line 210: cash minus the $200 buffer, never negative
UsableCash(a) == RMax(R(0), RSub(a.cash_available, R(200)))

\* the comparison of line 202 made strict
CappedByConcentrationStrict(a) ==
    IF RLt(RiskBasedAmount(a), ConcentrationCap(a))
    THEN [amount |-> RiskBasedAmount(a), binding |-> "risk"]
    ELSE [amount |-> ConcentrationCap(a), binding |-> "concentration"]

\* the risk-based amount taken whatever the concentration cap
CappedByRiskOnly(a) == [amount |-> RiskBasedAmount(a), binding |-> "risk"]

\* lines 202-207
CappedByConcentration(a) ==
    IF RLe(RiskBasedAmount(a), ConcentrationCap(a))
    THEN [amount |-> RiskBasedAmount(a), binding |-> "risk"]
    ELSE [amount |-> ConcentrationCap(a), binding |-> "concentration"]

\* lines 209-213
CappedByCash(a) ==
    IF RLt(UsableCash(a), CappedByConcentration(a).amount)
    THEN [amount |-> UsableCash(a), binding |-> "cash"]
    ELSE CappedByConcentration(a)

\* halving from 0.80 on
HighExposureInclusive(a) == RLe(Rat(80, 100), a.current_exposure_pct)

\* line 216: the exposure above which the amount is halved
HighExposure(a) == RLt(Rat(80, 100), a.current_exposure_pct)

\* lines 215-218
Halved(a) ==
    IF HighExposure(a)
    THEN [amount  |-> RDiv(CappedByCash(a).amount, R(2)),
          binding |-> CappedByCash(a).binding \o "+high_exposure"]
    ELSE CappedByCash(a)

\* line 221: the $50 floor
BelowFloor(amount) == RLt(amount, R(50))

SizingError ==
    [ error |-> TRUE, amount |-> 0, risk_budget |-> 0, actual_risk |-> 0,
      actual_risk_pct |-> 0, has_sl_distance_pct |-> FALSE, sl_distance_pct |-> 0,
      concentration_pct |-> 0, conviction |-> "", binding_constraint |-> "",
      has_reason |-> FALSE, local_amount |-> R(0) ]

\* The returned dict.  amount, risk_budget and actual_risk are in cents
\* (round(x, 2)), actual_risk_pct and sl_distance_pct in hundredths of a
\* percent, concentration_pct in tenths.  local_amount is the local variable
\* `amount` as it stands at line 221, before any rounding.
calculate_position_size(a) ==
    IF SizingInputError(a) THEN SizingError
    ELSE IF BelowFloor(Halved(a).amount)
    THEN [ SizingError EXCEPT
             !.error = FALSE,
             !.risk_budget = Cents(RiskBudget(a)),
             !.conviction = ConvictionUsed(a.conviction),
             !.binding_constraint = "below_minimum",
             !.has_reason = TRUE,
             !.local_amount = Halved(a).amount ]
    ELSE [ error               |-> FALSE,
           amount              |-> Cents(Halved(a).amount),
           risk_budget         |-> Cents(RiskBudget(a)),
           actual_risk         |-> Cents(RMul(Halved(a).amount, SlFraction(a))),
           actual_risk_pct     |-> RoundUnits(RMul(RDiv(RMul(Halved(a).amount, SlFraction(a)),
                                                       a.portfolio_value), R(100)), 100),
           has_sl_distance_pct |-> TRUE,
           sl_distance_pct     |-> RoundUnits(RMul(SlFraction(a), R(100)), 100),
           concentration_pct   |-> RoundUnits(RMul(RDiv(Halved(a).amount, a.portfolio_value),
                                                   R(100)), 10),
           conviction          |-> ConvictionUsed(a.conviction),
           binding_constraint  |-> Halved(a).binding,
           has_reason          |-> FALSE,
           local_amount        |-> Halved(a).amount ]

\* --- the sizing calls the model makes ---
PortfolioValues == {R(5000), R(5001), R(10000)}
BadPortfolioValues == {R(0 - 100), R(0)}
CashValues == {R(100), R(210), R(250), R(450), R(5000)}
AtrValues == {R(0 - 1), R(0), R(5), R(50)}
PriceValues == {R(100), R(1000)}
BadPriceValues == {R(0 - 1), R(0)}
ConvictionValues == {"STRONG", "moderate", "weak", "unknown"}
ExposureValues == {Rat(50, 100), Rat(80, 100), Rat(81, 100)}
SlDistanceValues ==
    {None, Some(Rat(0 - 5, 100)), Some(R(0)), Some(Rat(5, 100)), Some(Rat(25, 100)),
     Some(Rat(35, 100)), Some(Rat(50, 100))}

\* portfolios around $62,500 (8% of which is $5,000), with cash to match
LargePortfolioValues == {R(62500), R(62501), R(100000)}
LargeCashValues == {R(5200), R(20000)}

\* every combination with a positive portfolio value and price, and the
\* non-positive ones against each atr and sl_distance_pct
SizingArgs ==
    [ portfolio_value : PortfolioValues, cash_available : CashValues, atr : AtrValues,
      price : PriceValues, conviction : ConvictionValues,
      current_exposure_pct : ExposureValues, sl_distance_pct : SlDistanceValues ]
    \cup
    [ portfolio_value : BadPortfolioValues, cash_available : {R(5000)}, atr : AtrValues,
      price : PriceValues \cup BadPriceValues, conviction : {"moderate"},
      current_exposure_pct : {Rat(50, 100)}, sl_distance_pct : SlDistanceValues ]
    \cup
    [ portfolio_value : PortfolioValues, cash_available : {R(5000)}, atr : AtrValues,
      price : BadPriceValues, conviction : {"moderate"},
      current_exposure_pct : {Rat(50, 100)}, sl_distance_pct : SlDistanceValues ]
    \cup
    [ portfolio_value : LargePortfolioValues, cash_available : LargeCashValues,
      atr : AtrValues, price : PriceValues, conviction : ConvictionValues,
      current_exposure_pct : ExposureValues, sl_distance_pct : SlDistanceValues ]

NoSizingArgs ==
    [ portfolio_value |-> R(0), cash_available |-> R(0), atr |-> R(0), price |-> R(0),
      conviction |-> "", current_exposure_pct |-> R(0), sl_distance_pct |-> None ]

NotSized == [called |-> FALSE, result |-> SizingError]

SizingIdle == ps_in = NoSizingArgs /\ ps_out = NotSized

\* one call of calculate_position_size
Size ==
    /\ ps_in # NoSizingArgs
    /\ ~ps_out.called
    /\ ps_out' = [called |-> TRUE, result |-> calculate_position_size(ps_in)]
    /\ UNCHANGED ps_in


(***************************************************************************)
(* trading/atr_stops.py: calculate_atr_stops                               *)
(***************************************************************************)
\* direction.upper()
Upper(d) ==
    CASE d = "buy"  -> "BUY"
      [] d = "sell" -> "SELL"
      [] OTHER      -> d

\* line 47 (and engine.py 71): everything that is not BUY is treated as SELL
IsBuy(direction) == Upper(direction) = "BUY"

\* the guard of line 34 with strict comparisons
StopsInputErrorStrict(a) == RLt(a.price, R(0)) \/ RLt(a.atr, R(0))

\* line 34
StopsInputError(a) == RLe(a.price, R(0)) \/ RLe(a.atr, R(0))

\* lines 37, 41, 42: the stop distance in percent of price, clamped
ClampedSlPct(a) ==
    RMax(a.min_sl_pct,
         RMin(RMul(RDiv(RMul(a.atr, a.sl_multiplier), a.price), R(100)), a.max_sl_pct))

\* the raw ATR distance of line 37, not re-derived
SlDistanceRaw(a) == RMul(a.atr, a.sl_multiplier)

\* line 43: the dollar distance re-derived from the clamped percentage
SlDistance(a) == RDiv(RMul(a.price, ClampedSlPct(a)), R(100))

\* line 38: never clamped
TpDistance(a) == RMul(a.atr, a.tp_multiplier)

\* lines 48-53
SlRate(a) ==
    IF IsBuy(a.direction) THEN RSub(a.price, SlDistance(a)) ELSE RAdd(a.price, SlDistance(a))

TpRate(a) ==
    IF IsBuy(a.direction) THEN RAdd(a.price, TpDistance(a)) ELSE RSub(a.price, TpDistance(a))

\* {"error": ...}: the dict has no sl_rate / tp_rate keys (has_rates = FALSE)
StopsError ==
    [error |-> TRUE, raised |-> FALSE, has_rates |-> FALSE, sl_rate |-> 0, tp_rate |-> 0, sl_pct |-> 0,
     tp_pct |-> 0, method |-> ""]

\* an exception leaves the function
StopsRaised == [StopsError EXCEPT !.error = FALSE, !.raised = TRUE]

\* The returned dict: sl_rate and tp_rate in units of 0.0001 (round(x, 4)),
\* sl_pct and tp_pct in units of 0.01 (round(x, 2)).
\* lines 37-61: the float divisions by price (lines 41, 58) raise
\* ZeroDivisionError when price is zero
AtrStopsBody(a) ==
    IF a.price.n = 0 THEN StopsRaised
    ELSE [ error   |-> FALSE,
           raised  |-> FALSE,
           has_rates |-> TRUE,
           sl_rate |-> RoundUnits(SlRate(a), 10000),
           tp_rate |-> RoundUnits(TpRate(a), 10000),
           sl_pct  |-> RoundUnits(ClampedSlPct(a), 100),
           tp_pct  |-> RoundUnits(RMul(RDiv(TpDistance(a), a.price), R(100)), 100),
           method  |-> "atr" ]

calculate_atr_stops(a) == IF StopsInputError(a) THEN StopsError ELSE AtrStopsBody(a)

\* --- the calls the model makes ---
StopPrices == {R(0 - 10), R(0), Rat(1, 1000), R(100), R(200), R(300)}
StopAtrs == {R(0 - 1), R(0), Rat(1, 100000), Rat(1, 10), Rat(1, 2), R(5), R(20), R(40)}
StopDirections == {"BUY", "SELL", "buy"}
\* (sl_multiplier, tp_multiplier): the defaults and the pair of test_custom_multipliers
StopMultipliers == {<<R(2), R(3)>>, <<Rat(3, 2), R(4)>>}
\* (min_sl_pct, max_sl_pct): the defaults and a narrower window
StopClamps == {<<R(1), R(15)>>, <<R(2), R(10)>>}

StopArgs ==
    { [ price |-> p, atr |-> v, direction |-> d, sl_multiplier |-> m[1],
        tp_multiplier |-> m[2], min_sl_pct |-> c[1], max_sl_pct |-> c[2] ] :
        p \in StopPrices, v \in StopAtrs, d \in StopDirections, m \in StopMultipliers,
        c \in StopClamps }

NoStopArgs ==
    [ price |-> R(0), atr |-> R(0), direction |-> "", sl_multiplier |-> R(0),
      tp_multiplier |-> R(0), min_sl_pct |-> R(0), max_sl_pct |-> R(0) ]

NoStops == [called |-> FALSE, result |-> StopsError]

StopsIdle == st_in = NoStopArgs /\ st_out = NoStops

\* one call of calculate_atr_stops
AtrStops ==
    /\ st_in # NoStopArgs
    /\ ~st_out.called
    /\ st_out' = [called |-> TRUE, result |-> calculate_atr_stops(st_in)]
    /\ UNCHANGED st_in


(***************************************************************************)
(* market/indicators.py: atr, chandelier_exit, supertrend.  A df is a      *)
(* sequence of bars [high, low, close] of finite numbers; a series is a    *)
(* sequence of the same length whose undefined entries are NaN.            *)
(***************************************************************************)
NaN == [n |-> 0, d |-> 0]
IsNaN(x) == x.d = 0

Bar(h, l, c) == [high |-> R(h), low |-> R(l), close |-> R(c)]

\* true range of bar i (1-based); the first bar has no previous close and
\* max(axis=1) skips the two NaN candidates
TrueRange(df, i) ==
    IF i = 1 THEN RSub(df[1].high, df[1].low)
    ELSE RMax(RSub(df[i].high, df[i].low),
              RMax(RAbs(RSub(df[i].high, df[i - 1].close)),
                   RAbs(RSub(df[i].low, df[i - 1].close))))

RECURSIVE EwmNum(_, _, _), EwmDen(_, _)
\* ewm(alpha = 1/period, adjust=True): weights (1 - alpha)^k over all bars so far
EwmNum(df, period, i) ==
    IF i = 1 THEN TrueRange(df, 1)
    ELSE RAdd(RMul(Rat(period - 1, period), EwmNum(df, period, i - 1)), TrueRange(df, i))
EwmDen(period, i) ==
    IF i = 1 THEN R(1) ELSE RAdd(RMul(Rat(period - 1, period), EwmDen(period, i - 1)), R(1))

\* atr(df, period)[i]: NaN until `period` bars are seen (min_periods)
Atr(df, period, i) ==
    IF i < period THEN NaN ELSE RDiv(EwmNum(df, period, i), EwmDen(period, i))

RECURSIVE RollMaxHigh(_, _, _), RollMinLow(_, _, _)
\* max(high[j..i]) and min(low[j..i])
RollMaxHigh(df, j, i) ==
    IF j = i THEN df[i].high ELSE RMax(df[j].high, RollMaxHigh(df, j + 1, i))
RollMinLow(df, j, i) ==
    IF j = i THEN df[i].low ELSE RMin(df[j].low, RollMinLow(df, j + 1, i))

\* chandelier_exit(df, n, mult): the two stop series at bar i
LongStopFromClose(df, n, mult, i) ==
    IF i < n THEN NaN ELSE RSub(df[i].close, RMul(mult, Atr(df, n, i)))
LongStop(df, n, mult, i) ==
    IF i < n THEN NaN
    ELSE RSub(RollMaxHigh(df, i - n + 1, i), RMul(mult, Atr(df, n, i)))

ShortStop(df, n, mult, i) ==
    IF i < n THEN NaN
    ELSE RAdd(RollMinLow(df, i - n + 1, i), RMul(mult, Atr(df, n, i)))

\* supertrend: the basic bands
Hl2(df, i) == RDiv(RAdd(df[i].high, df[i].low), R(2))
UbBasic(df, n, mult, i) ==
    LET a == Atr(df, n, i) IN IF IsNaN(a) THEN NaN ELSE RAdd(Hl2(df, i), RMul(mult, a))
LbBasic(df, n, mult, i) ==
    LET a == Atr(df, n, i) IN IF IsNaN(a) THEN NaN ELSE RSub(Hl2(df, i), RMul(mult, a))

\* band-locking of the upper band (lines 197-198): the basic value when it
\* is lower than the previous band or the previous close broke above it
LockUpperNoReset(ub0, prev_ub, prev_close) ==
    IF RLt(ub0, prev_ub) THEN ub0 ELSE prev_ub
LockUpper(ub0, prev_ub, prev_close) ==
    IF RLt(ub0, prev_ub) \/ RLt(prev_ub, prev_close) THEN ub0 ELSE prev_ub

\* band-locking of the lower band (lines 202-203)
LockLowerBasic(lb0, prev_lb, prev_close) == lb0
LockLower(lb0, prev_lb, prev_close) ==
    IF RLt(prev_lb, lb0) \/ RLt(prev_close, prev_lb) THEN lb0 ELSE prev_lb

\* trend direction (lines 206-209): flip only when the close crosses the
\* active band
NextTrendOneBand(prev_trend, close, ub, lb) ==
    IF RLt(close, lb) THEN 0 - 1 ELSE 1
NextTrend(prev_trend, close, ub, lb) ==
    IF prev_trend = 0 - 1
    THEN (IF RLt(ub, close) THEN 1 ELSE 0 - 1)
    ELSE (IF RLt(close, lb) THEN 0 - 1 ELSE 1)

RECURSIVE SuperTrendScan(_, _, _, _)
\* ub_arr, lb_arr, trend_arr of bars 1..i after the loop of lines 191-210 has
\* passed bar i
SuperTrendScan(df, n, mult, i) ==
    IF i = 1
    THEN << [ub |-> UbBasic(df, n, mult, 1), lb |-> LbBasic(df, n, mult, 1), trend |-> 1] >>
    ELSE LET done    == SuperTrendScan(df, n, mult, i - 1)
             prev    == done[i - 1]
             ub0     == UbBasic(df, n, mult, i)
             lb0     == LbBasic(df, n, mult, i)
             prev_ub == IF IsNaN(prev.ub) THEN ub0 ELSE prev.ub
             prev_lb == IF IsNaN(prev.lb) THEN lb0 ELSE prev.lb
             ub      == LockUpper(ub0, prev_ub, df[i - 1].close)
             lb      == LockLower(lb0, prev_lb, df[i - 1].close)
         IN  Append(done,
                    IF IsNaN(ub0) \/ IsNaN(lb0)
                    THEN [ub |-> ub0, lb |-> lb0, trend |-> prev.trend]
                    ELSE [ ub    |-> ub,
                           lb    |-> lb,
                           trend |-> NextTrend(prev.trend, df[i].close, ub, lb) ])

SuperTrendAt(df, n, mult, i) == SuperTrendScan(df, n, mult, i)[i]

\* the SuperTrend line: lower band when bullish, upper band when bearish
SuperTrendLine(df, n, mult, i) ==
    LET at == SuperTrendAt(df, n, mult, i) IN IF at.trend = 1 THEN at.lb ELSE at.ub

\* supertrend(df, n, mult): the two returned series, with the arrays of the
\* loop kept beside them
supertrend(df, n, mult) ==
    LET arr == SuperTrendScan(df, n, mult, Len(df))
    IN  [ line      |-> [i \in 1..Len(df) |-> IF arr[i].trend = 1 THEN arr[i].lb ELSE arr[i].ub],
          direction |-> [i \in 1..Len(df) |-> arr[i].trend],
          ub        |-> [i \in 1..Len(df) |-> arr[i].ub],
          lb        |-> [i \in 1..Len(df) |-> arr[i].lb],
          ub_basic  |-> [i \in 1..Len(df) |-> UbBasic(df, n, mult, i)],
          lb_basic  |-> [i \in 1..Len(df) |-> LbBasic(df, n, mult, i)] ]

\* chandelier_exit(df, n, mult): (long_stop, short_stop)
chandelier_exit(df, n, mult) ==
    [ long_stop  |-> [i \in 1..Len(df) |-> LongStop(df, n, mult, i)],
      short_stop |-> [i \in 1..Len(df) |-> ShortStop(df, n, mult, i)] ]

\* --- the indicator calls the model makes ---
RECURSIVE SeqsUpTo(_, _)
\* the sequences over S of length at most k
SeqsUpTo(S, k) ==
    IF k = 0 THEN {<<>>}
    ELSE SeqsUpTo(S, k - 1) \cup {Append(q, x) : q \in {t \in SeqsUpTo(S, k - 1) : Len(t) = k - 1}, x \in S}

MaxSeries == 4      \* longest df given to an indicator

\* bars one unit either side of the close, and one wide bar closing low
PriceBar(p) == Bar(p + 1, p - 1, p)
IndicatorBars == {PriceBar(8), PriceBar(10), PriceBar(12), PriceBar(14), Bar(16, 8, 9)}

\* (n, mult): short periods standing in for the defaults (22, 3.0), (14, 3.0)
IndicatorParams == {<<2, R(1)>>, <<3, R(3)>>}

IndicatorArgs ==
    { [df |-> q, n |-> k[1], mult |-> k[2]] :
        q \in SeqsUpTo(IndicatorBars, MaxSeries) \ {<<>>}, k \in IndicatorParams }

NoIndicatorArgs == [df |-> <<>>, n |-> 0, mult |-> R(0)]
NoSeries == [fn |-> "none"]
IndicatorsIdle == ind_in = NoIndicatorArgs /\ ind_out = NoSeries

\* one call of supertrend
SuperTrend ==
    /\ ind_in # NoIndicatorArgs
    /\ ind_out = NoSeries
    /\ ind_out' = [fn |-> "supertrend"] @@ supertrend(ind_in.df, ind_in.n, ind_in.mult)
    /\ UNCHANGED ind_in

\* one call of chandelier_exit
ChandelierExit ==
    /\ ind_in # NoIndicatorArgs
    /\ ind_out = NoSeries
    /\ ind_out' = [fn |-> "chandelier_exit"] @@ chandelier_exit(ind_in.df, ind_in.n, ind_in.mult)
    /\ UNCHANGED ind_in


(***************************************************************************)
(* trading/atr_stops.py: calculate_chandelier_stops                        *)
(***************************************************************************)
Max(a, b) == IF a >= b THEN a ELSE b

ChandelierResult(kind) ==
    [ error |-> kind # "ok", raised |-> FALSE, kind |-> kind, sl_rate |-> 0, sl_pct |-> 0,
      trend_up |-> FALSE, supertrend_value |-> 0, method |-> "" ]

\* an exception leaves the function
ChandelierRaised == [ChandelierResult("raised") EXCEPT !.error = FALSE, !.raised = TRUE]

\* lines 98-102: the two guards
ChandelierGuard(a) ==
    IF RLe(a.price, R(0)) THEN "invalid_price"
    ELSE IF Len(a.df) < Max(a.n, a.supertrend_n) THEN "insufficient_data"
    ELSE "ok"

\* line 108: the raw Chandelier stop of the last bar
RawSl(a) ==
    IF IsBuy(a.direction)
    THEN LongStop(a.df, a.n, a.mult, Len(a.df))
    ELSE ShortStop(a.df, a.n, a.mult, Len(a.df))

\* lines 115-116: the distance from price in percent, clamped
ChandelierSlPct(a) ==
    RMax(a.min_sl_pct,
         RMin(RMul(RDiv(RAbs(RSub(a.price, RawSl(a))), a.price), R(100)), a.max_sl_pct))

\* the raw Chandelier value used as the stop
ChandelierSlRateRaw(a) == RawSl(a)

\* line 118
ChandelierSlRate(a) ==
    IF IsBuy(a.direction)
    THEN RMul(a.price, RSub(R(1), RDiv(ChandelierSlPct(a), R(100))))
    ELSE RMul(a.price, RAdd(R(1), RDiv(ChandelierSlPct(a), R(100))))

\* lines 104-130.  .iloc[-1] of an empty series raises IndexError and a float
\* division by a zero price raises ZeroDivisionError.
ChandelierBody(a) ==
    IF Len(a.df) = 0 THEN ChandelierRaised
    ELSE IF IsNaN(RawSl(a)) THEN ChandelierResult("nan_stop")
    ELSE IF a.price.n = 0 THEN ChandelierRaised
    ELSE IF IsNaN(SuperTrendLine(a.df, a.supertrend_n, a.supertrend_mult, Len(a.df)))
    THEN ChandelierResult("nan_supertrend")
    ELSE [ error            |-> FALSE,
           raised           |-> FALSE,
           kind             |-> "ok",
           sl_rate          |-> RoundUnits(ChandelierSlRate(a), 10000),
           sl_pct           |-> RoundUnits(ChandelierSlPct(a), 100),
           trend_up         |-> SuperTrendAt(a.df, a.supertrend_n, a.supertrend_mult,
                                             Len(a.df)).trend = 1,
           supertrend_value |-> RoundUnits(SuperTrendLine(a.df, a.supertrend_n,
                                                          a.supertrend_mult, Len(a.df)), 10000),
           method           |-> "chandelier" ]

calculate_chandelier_stops(a) ==
    IF ChandelierGuard(a) # "ok" THEN ChandelierResult(ChandelierGuard(a))
    ELSE ChandelierBody(a)

\* --- the calls the model makes ---
MaxBars == 4      \* longest df

Bars == {Bar(11, 9, 10), Bar(9, 7, 8), Bar(16, 8, 12)}

ChandelierPrices == {R(0 - 5), R(0), Rat(1, 10000), R(4), Rat(11, 2), R(10)}

\* (n, supertrend_n): short lookbacks standing in for the defaults (22, 14)
Lookbacks == {<<3, 2>>, <<2, 3>>}

ChandelierArgs ==
    { [ df |-> q, price |-> p, direction |-> d, n |-> k[1], mult |-> R(3),
        supertrend_n |-> k[2], supertrend_mult |-> R(3),
        max_sl_pct |-> R(15), min_sl_pct |-> R(1) ] :
        q \in SeqsUpTo(Bars, MaxBars), p \in ChandelierPrices, d \in {"BUY", "SELL"},
        k \in Lookbacks }

NoChandelierArgs ==
    [ df |-> <<>>, price |-> R(0), direction |-> "", n |-> 0, mult |-> R(0),
      supertrend_n |-> 0, supertrend_mult |-> R(0), max_sl_pct |-> R(0), min_sl_pct |-> R(0) ]

NoChandelier == [called |-> FALSE, result |-> ChandelierResult("none")]

ChandelierIdle == ch_in = NoChandelierArgs /\ ch_out = NoChandelier

\* one call of calculate_chandelier_stops
ChandelierStops ==
    /\ ch_in # NoChandelierArgs
    /\ ~ch_out.called
    /\ ch_out' = [called |-> TRUE, result |-> calculate_chandelier_stops(ch_in)]
    /\ UNCHANGED ch_in

(***************************************************************************)
(* market/data.py: analyze_market_regime.  An analysis is what             *)
(* analyze_instrument answers: a result dict, a dict with an "error" key   *)
(* (symbol not found, no candle data), or an exception of the API client   *)
(* that analyze_instrument does not catch.                                 *)
(***************************************************************************)
Analysis(trend, price, sma_20, sma_50) ==
    [kind |-> "ok", trend |-> trend, price |-> price, sma_20 |-> sma_20, sma_50 |-> sma_50]
AnalysisError == [kind |-> "error", trend |-> "", price |-> R(0), sma_20 |-> R(0), sma_50 |-> R(0)]
AnalysisRaises == [kind |-> "raises", trend |-> "", price |-> R(0), sma_20 |-> R(0), sma_50 |-> R(0)]

\* regime["spy"] / regime["qqq"]: the fields the bias reads
IndexSummary(a) ==
    [ trend       |-> a.trend,
      above_sma20 |-> RLt(a.sma_20, a.price),
      above_sma50 |-> RLt(a.sma_50, a.price) ]
NoSummary == [trend |-> "", above_sma20 |-> FALSE, above_sma50 |-> FALSE]

\* regime["vix"] for a fetched value: the bucket is chosen on the value as
\* fetched, the reported value is round(vix_val, 2), kept in hundredths
VixRegimeInclusive(vix_val) ==
    IF RLe(vix_val, R(13)) THEN "VERY_LOW"
    ELSE IF RLe(vix_val, R(16)) THEN "LOW"
    ELSE IF RLe(vix_val, R(20)) THEN "NORMAL"
    ELSE IF RLe(vix_val, R(25)) THEN "ELEVATED"
    ELSE IF RLe(vix_val, R(30)) THEN "HIGH"
    ELSE "EXTREME"
VixRegime(vix_val) ==
    IF RLt(vix_val, R(13)) THEN "VERY_LOW"
    ELSE IF RLt(vix_val, R(16)) THEN "LOW"
    ELSE IF RLt(vix_val, R(20)) THEN "NORMAL"
    ELSE IF RLt(vix_val, R(25)) THEN "ELEVATED"
    ELSE IF RLt(vix_val, R(30)) THEN "HIGH"
    ELSE "EXTREME"
SizingAdjustment(vix_regime) ==
    CASE vix_regime \in {"VERY_LOW", "LOW", "NORMAL"} -> Rat(1, 1)
      [] vix_regime = "ELEVATED" -> Rat(3, 4)
      [] vix_regime = "HIGH" -> Rat(1, 2)
      [] vix_regime = "EXTREME" -> Rat(1, 4)
VixEntry(vix) ==
    IF vix.present
    THEN [ has_value |-> TRUE, value |-> RoundUnits(vix.value, 100),
           regime |-> VixRegime(vix.value),
           sizing_adjustment |-> SizingAdjustment(VixRegime(vix.value)) ]
    ELSE [ has_value |-> FALSE, value |-> 0, regime |-> "UNKNOWN",
           sizing_adjustment |-> Rat(1, 1) ]

\* vix_ok: the reported value is not None and below 25
VixOk(entry, vix) == entry.has_value /\ entry.value < 25 * 100

BoolInt(b) == IF b THEN 1 ELSE 0
BiasOf(bull_score) ==
    IF bull_score >= 4 THEN "RISK_ON" ELSE IF bull_score >= 2 THEN "CAUTIOUS" ELSE "RISK_OFF"

\* the bias is scored when at least one index is available (lines 507-517)
BiasScoredBoth(spy_present, qqq_present) == spy_present /\ qqq_present
BiasScored(spy_present, qqq_present) == spy_present \/ qqq_present

RegimeRaised(events) ==
    [ raised |-> TRUE, events |-> events, errors |-> <<>>, has_spy |-> FALSE, spy |-> NoSummary,
      has_qqq |-> FALSE, qqq |-> NoSummary, has_vix |-> FALSE, vix |-> VixEntry([present |-> FALSE, value |-> R(0)]),
      has_bias |-> FALSE, bias |-> "", scored |-> FALSE, bull_score |-> 0 ]

\* the dict that analyze_market_regime returns, or the exception it lets through
analyze_market_regime(a) ==
    IF a.spy.kind = "raises" THEN RegimeRaised(<<"SPY">>)
    ELSE IF a.qqq.kind = "raises" THEN RegimeRaised(<<"SPY", "QQQ">>)
    ELSE
    LET spy_present == a.spy.kind = "ok"
        qqq_present == a.qqq.kind = "ok"
        spy         == IF spy_present THEN IndexSummary(a.spy) ELSE NoSummary
        qqq         == IF qqq_present THEN IndexSummary(a.qqq) ELSE NoSummary
        vix         == VixEntry(a.vix)
        errors      == (IF spy_present THEN <<>> ELSE <<"SPY">>)
                       \o (IF qqq_present THEN <<>> ELSE <<"QQQ">>)
                       \o (IF a.vix.present THEN <<>> ELSE <<"VIX">>)
        bull_score  == BoolInt(spy.trend = "BULLISH") + BoolInt(qqq.trend = "BULLISH")
                       + BoolInt(spy.above_sma20) + BoolInt(spy.above_sma50)
                       + BoolInt(VixOk(vix, a.vix))
        scored      == BiasScored(spy_present, qqq_present)
    IN  [ raised |-> FALSE, events |-> <<"SPY", "QQQ", "VIX">>, errors |-> errors,
          has_spy |-> spy_present, spy |-> spy, has_qqq |-> qqq_present, qqq |-> qqq,
          has_vix |-> TRUE, vix |-> vix,
          has_bias |-> TRUE, bias |-> IF scored THEN BiasOf(bull_score) ELSE "UNKNOWN",
          scored |-> scored, bull_score |-> IF scored THEN bull_score ELSE 0 ]

\* --- the answers the model gives to the three fetches ---
Trends == {"BULLISH", "BEARISH", "NEUTRAL"}
SpyAnalyses ==
    {AnalysisError, AnalysisRaises}
    \cup {Analysis(t, R(580), R(s20), R(s50)) : t \in Trends, s20 \in {570, 590}, s50 \in {560, 600}}
QqqAnalyses ==
    {AnalysisError, AnalysisRaises} \cup {Analysis(t, R(470), R(460), R(450)) : t \in Trends}
\* _fetch_vix_external(): None, or a positive float
VixNone == [present |-> FALSE, value |-> R(0)]
VixValue(x) == [present |-> TRUE, value |-> x]
VixFetches ==
    {VixNone} \cup {VixValue(x) : x \in {R(12), R(13), R(15), R(16), Rat(37, 2), R(20),
                                         Rat(45, 2), Rat(2499, 100), Rat(24996, 1000),
                                         R(25), R(27), R(30), R(38)}}

RegimeArgs == {[spy |-> s, qqq |-> q, vix |-> v] : s \in SpyAnalyses, q \in QqqAnalyses, v \in VixFetches}
NoRegimeArgs == [spy |-> AnalysisError, qqq |-> AnalysisError, vix |-> VixNone]
NoRegime == [called |-> FALSE]
RegimeIdle == rg_in = NoRegimeArgs /\ rg_out = NoRegime

\* one call of analyze_market_regime
AnalyzeMarketRegime ==
    /\ rg_in \in RegimeArgs
    /\ ~rg_out.called
    /\ rg_out' = [called |-> TRUE] @@ analyze_market_regime(rg_in)
    /\ UNCHANGED rg_in

(***************************************************************************)
(* market/indicators.py: ma_alignment.  A moving average is a number, NaN  *)
(* (too few candles) or None.                                              *)
(***************************************************************************)
NoneValue == [n |-> 0, d |-> 0 - 1]
IsNone(x) == x.d = 0 - 1

\* a > b on floats: False when either side is NaN
Gt(a, b) == ~IsNaN(a) /\ ~IsNaN(b) /\ RLt(b, a)

\* the comparisons of lines 247-259 raise TypeError on None
MaRaises(price, ema_21, sma_50, sma_200) ==
    IsNone(price) \/ IsNone(ema_21) \/ IsNone(sma_50) \/ IsNone(sma_200)

MaStatus(bull, bear, gold, death) ==
    IF gold THEN "GOLDEN"
    ELSE IF death THEN "DEATH"
    ELSE IF bull >= 2 THEN "MOSTLY_BULLISH"
    ELSE IF bear >= 2 THEN "MOSTLY_BEARISH"
    ELSE "MIXED"

ma_alignment(price, ema_21, sma_50, sma_200) ==
    IF MaRaises(price, ema_21, sma_50, sma_200)
    THEN [ fn |-> "ma_alignment", raised |-> TRUE, status |-> "", bullish_layers |-> 0,
           bearish_layers |-> 0, price_above_ema21 |-> FALSE, ema21_above_sma50 |-> FALSE,
           sma50_above_sma200 |-> FALSE ]
    ELSE
    LET bullish == Gt(price, ema_21) /\ Gt(ema_21, sma_50) /\ Gt(sma_50, sma_200)
        bearish == Gt(ema_21, price) /\ Gt(sma_50, ema_21) /\ Gt(sma_200, sma_50)
        bull_layers == BoolInt(Gt(price, ema_21)) + BoolInt(Gt(ema_21, sma_50))
                       + BoolInt(Gt(sma_50, sma_200))
        bear_layers == BoolInt(Gt(ema_21, price)) + BoolInt(Gt(sma_50, ema_21))
                       + BoolInt(Gt(sma_200, sma_50))
    IN  [ fn |-> "ma_alignment", raised |-> FALSE,
          status |-> MaStatus(bull_layers, bear_layers, bullish, bearish),
          bullish_layers |-> bull_layers, bearish_layers |-> bear_layers,
          price_above_ema21 |-> Gt(price, ema_21),
          ema21_above_sma50 |-> Gt(ema_21, sma_50),
          sma50_above_sma200 |-> Gt(sma_50, sma_200) ]

(***************************************************************************)
(* market/indicators.py: _dedupe_levels, support_resistance                *)
(***************************************************************************)
RECURSIVE SortedSeq(_)
\* sorted(set(...)): the values of a finite set of numbers in ascending order
SortedSeq(S) ==
    IF S = {} THEN <<>>
    ELSE LET m == CHOOSE x \in S : \A y \in S : RLe(x, y)
         IN  <<m>> \o SortedSeq(S \ {m})

\* abs(lvl - kept) / kept > tolerance, with tolerance = 0.02 and kept > 0
Apart(lvl, kept) == RLt(Rat(2, 100), RDiv(RAbs(RSub(lvl, kept)), kept))

RECURSIVE DedupeFrom(_, _)
\* the loop of lines 103-105 over the sorted levels still to visit
DedupeFrom(deduped, rest) ==
    IF rest = <<>> THEN deduped
    ELSE IF Apart(Head(rest), deduped[Len(deduped)])
         THEN DedupeFrom(Append(deduped, Head(rest)), Tail(rest))
         ELSE DedupeFrom(deduped, Tail(rest))

\* _dedupe_levels(levels) for a sorted list of positive levels
dedupe_levels(levels) ==
    IF levels = <<>> THEN <<>> ELSE DedupeFrom(<<levels[1]>>, Tail(levels))

\* rolling(window, center=True): the window of bar i (1-based) is
\* i + offset - window + 1 .. i + offset with offset = (window - 1) // 2, and
\* the value is NaN unless the whole window lies inside df
CenterLo(window, i) == i + ((window - 1) \div 2) - window + 1
CenterHi(window, i) == i + ((window - 1) \div 2)
RollingHighs(df, window) ==
    { RollMaxHigh(df, CenterLo(window, i), CenterHi(window, i)) :
        i \in {j \in 1..Len(df) : CenterLo(window, j) >= 1 /\ CenterHi(window, j) =< Len(df)} }
RollingLows(df, window) ==
    { RollMinLow(df, CenterLo(window, i), CenterHi(window, i)) :
        i \in {j \in 1..Len(df) : CenterLo(window, j) >= 1 /\ CenterHi(window, j) =< Len(df)} }

LastN(q, k) == IF Len(q) =< k THEN q ELSE SubSeq(q, Len(q) - k + 1, Len(q))
FirstN(q, k) == IF Len(q) =< k THEN q ELSE SubSeq(q, 1, k)

\* the levels kept: five at most on either side
MaxLevels == 5

\* support_resistance(df, window); levels are reported rounded to 4 decimals
\* (in units of 0.0001)
support_resistance(df, window) ==
    LET current    == df[Len(df)].close
        resistance == dedupe_levels(LastN(SortedSeq(RollingHighs(df, window)), MaxLevels))
        support    == dedupe_levels(FirstN(SortedSeq(RollingLows(df, window)), MaxLevels))
        below      == {support[i] : i \in {j \in 1..Len(support) : RLt(support[j], current)}}
        above      == {resistance[i] :
                          i \in {j \in 1..Len(resistance) : RLt(current, resistance[j])}}
    IN  [ fn |-> "support_resistance", raised |-> FALSE,
          candidates_high |-> LastN(SortedSeq(RollingHighs(df, window)), MaxLevels),
          candidates_low  |-> FirstN(SortedSeq(RollingLows(df, window)), MaxLevels),
          support_levels    |-> [i \in 1..Len(support) |-> RoundUnits(support[i], 10000)],
          resistance_levels |-> [i \in 1..Len(resistance) |-> RoundUnits(resistance[i], 10000)],
          has_nearest_support |-> below # {},
          nearest_support |->
              IF below = {} THEN 0
              ELSE RoundUnits(CHOOSE x \in below : \A y \in below : RLe(y, x), 10000),
          has_nearest_resistance |-> above # {},
          nearest_resistance |->
              IF above = {} THEN 0
              ELSE RoundUnits(CHOOSE x \in above : \A y \in above : RLe(x, y), 10000) ]

\* --- the calls the model makes ---
MaValues == {R(100), R(110), R(120), R(130)}
Sma200Values == MaValues \cup {NaN, NoneValue}
MaArgs ==
    { [kind |-> "ma", price |-> p, ema_21 |-> e, sma_50 |-> s, sma_200 |-> l] :
        p \in MaValues, e \in MaValues, s \in MaValues \cup {NaN}, l \in Sma200Values }

\* bars whose highs and lows lie 1%, 2%, 3% and 10% apart
LevelBars == {Bar(100, 50, 75), Bar(101, 51, 75), Bar(102, 52, 105), Bar(103, 49, 40), Bar(110, 55, 75)}
Windows == {2, 3}
LevelArgs ==
    { [kind |-> "sr", df |-> q, window |-> w] :
        q \in SeqsUpTo(LevelBars, MaxSeries) \ {<<>>}, w \in Windows }

NoFnArgs == [kind |-> "none"]
NoFnResult == [fn |-> "none"]
FnIdle == fn_in = NoFnArgs /\ fn_out = NoFnResult

\* one call of ma_alignment
MaAlignment ==
    /\ fn_in.kind = "ma"
    /\ fn_out = NoFnResult
    /\ fn_out' = ma_alignment(fn_in.price, fn_in.ema_21, fn_in.sma_50, fn_in.sma_200)
    /\ UNCHANGED fn_in

\* one call of support_resistance
SupportResistance ==
    /\ fn_in.kind = "sr"
    /\ fn_out = NoFnResult
    /\ fn_out' = support_resistance(fn_in.df, fn_in.window)
    /\ UNCHANGED fn_in

(***************************************************************************)
(* Specifications                                                          *)
(***************************************************************************)
\* the engine: check_trade, open_position, create_limit_order, close_position
Init == EngineInit /\ SizingIdle /\ StopsIdle /\ ChandelierIdle /\ IndicatorsIdle /\ RegimeIdle /\ FnIdle

Next ==
    \/ CheckTrade /\ UNCHANGED <<sizing_vars, stops_vars, chand_vars, ind_vars, regime_vars, fn_vars>>
    \/ OpenPosition /\ UNCHANGED <<sizing_vars, stops_vars, chand_vars, ind_vars, regime_vars, fn_vars>>
    \/ CreateLimitOrder /\ UNCHANGED <<sizing_vars, stops_vars, chand_vars, ind_vars, regime_vars, fn_vars>>
    \/ ClosePosition /\ UNCHANGED <<sizing_vars, stops_vars, chand_vars, ind_vars, regime_vars, fn_vars>>
    \/ LogClose /\ UNCHANGED <<sizing_vars, stops_vars, chand_vars, ind_vars, regime_vars, fn_vars>>
    \/ Return /\ UNCHANGED <<sizing_vars, stops_vars, chand_vars, ind_vars, regime_vars, fn_vars>>

Spec == Init /\ [][Next]_vars

\* calculate_position_size applied to each argument tuple
InitSizing ==
    /\ EngineInit /\ StopsIdle /\ ChandelierIdle /\ IndicatorsIdle /\ RegimeIdle /\ FnIdle
    /\ ps_in \in SizingArgs /\ ps_out = NotSized
NextSizing == Size /\ UNCHANGED <<engine_vars, stops_vars, chand_vars, ind_vars, regime_vars, fn_vars>>
SpecSizing == InitSizing /\ [][NextSizing]_vars

\* calculate_atr_stops applied to each argument tuple
InitStops ==
    /\ EngineInit /\ SizingIdle /\ ChandelierIdle /\ IndicatorsIdle /\ RegimeIdle /\ FnIdle
    /\ st_in \in StopArgs /\ st_out = NoStops
NextStops == AtrStops /\ UNCHANGED <<engine_vars, sizing_vars, chand_vars, ind_vars, regime_vars, fn_vars>>
SpecStops == InitStops /\ [][NextStops]_vars

\* calculate_chandelier_stops applied to each argument tuple
InitChandelier ==
    /\ EngineInit /\ SizingIdle /\ StopsIdle /\ IndicatorsIdle /\ RegimeIdle /\ FnIdle
    /\ ch_in \in ChandelierArgs /\ ch_out = NoChandelier
NextChandelier == ChandelierStops /\ UNCHANGED <<engine_vars, sizing_vars, stops_vars, ind_vars, regime_vars, fn_vars>>
SpecChandelier == InitChandelier /\ [][NextChandelier]_vars

\* both stop calculators, one call of either
InitStopCalls ==
    /\ EngineInit /\ SizingIdle /\ IndicatorsIdle /\ RegimeIdle /\ FnIdle
    /\ \/ st_in \in StopArgs /\ st_out = NoStops /\ ChandelierIdle
       \/ StopsIdle /\ ch_in \in ChandelierArgs /\ ch_out = NoChandelier
NextStopCalls ==
    \/ AtrStops /\ UNCHANGED <<engine_vars, sizing_vars, chand_vars, ind_vars, regime_vars, fn_vars>>
    \/ ChandelierStops /\ UNCHANGED <<engine_vars, sizing_vars, stops_vars, ind_vars, regime_vars, fn_vars>>
SpecStopCalls == InitStopCalls /\ [][NextStopCalls]_vars

\* supertrend and chandelier_exit, one call of either on each df
InitIndicators ==
    /\ EngineInit /\ SizingIdle /\ StopsIdle /\ ChandelierIdle /\ RegimeIdle /\ FnIdle
    /\ ind_in \in IndicatorArgs /\ ind_out = NoSeries
NextIndicators ==
    \/ SuperTrend /\ UNCHANGED <<engine_vars, sizing_vars, stops_vars, chand_vars, regime_vars, fn_vars>>
    \/ ChandelierExit /\ UNCHANGED <<engine_vars, sizing_vars, stops_vars, chand_vars, regime_vars, fn_vars>>
SpecIndicators == InitIndicators /\ [][NextIndicators]_vars

\* analyze_market_regime on each combination of answers
InitRegime ==
    /\ EngineInit /\ SizingIdle /\ StopsIdle /\ ChandelierIdle /\ IndicatorsIdle /\ FnIdle
    /\ rg_in \in RegimeArgs /\ rg_out = NoRegime
NextRegime ==
    AnalyzeMarketRegime /\ UNCHANGED <<engine_vars, sizing_vars, stops_vars, chand_vars, ind_vars, fn_vars>>
SpecRegime == InitRegime /\ [][NextRegime]_vars

\* ma_alignment and support_resistance, one call on each argument tuple
InitLevels ==
    /\ EngineInit /\ SizingIdle /\ StopsIdle /\ ChandelierIdle /\ IndicatorsIdle /\ RegimeIdle
    /\ fn_in \in MaArgs \cup LevelArgs /\ fn_out = NoFnResult
NextLevels ==
    \/ MaAlignment /\ UNCHANGED <<engine_vars, sizing_vars, stops_vars, chand_vars, ind_vars,
                                   regime_vars>>
    \/ SupportResistance /\ UNCHANGED <<engine_vars, sizing_vars, stops_vars, chand_vars,
                                         ind_vars, regime_vars>>
SpecLevels == InitLevels /\ [][NextLevels]_vars

(***************************************************************************)
(* Properties of the engine and of check_trade (under Spec).  `call` holds  *)
(* the call that has just returned.                                        *)
(***************************************************************************)
OrderCall == pc = "returned" /\ call.op \in {"open_position", "create_limit_order"}
RiskCall == pc = "returned" /\ call.out.checked

\* the position of the first x in s (0 when absent)
FirstIndex(s, x) ==
    IF Contains(s, x) THEN CHOOSE i \in 1..Len(s) : s[i] = x /\ \A j \in 1..(i - 1) : s[j] # x
    ELSE 0

\* C1: in open_position and create_limit_order every order request (POST)
\* comes after check_trade was evaluated in the same call and returned
\* passed = TRUE; a call whose risk check fails or whose symbol cannot be
\* resolved sends no order request.
C1_OrderOnlyAfterPassedRiskCheck ==
    OrderCall =>
        LET ev == call.out.events
        IN  /\ Contains(ev, "POST") =>
                 /\ call.out.checked
                 /\ call.out.risk.passed
                 /\ Contains(ev, "check_trade")
                 /\ FirstIndex(ev, "check_trade") < FirstIndex(ev, "POST")
            /\ (call.env.resolve # "found" \/ (call.out.checked /\ ~call.out.risk.passed)) =>
                 /\ ~Contains(ev, "POST")
                 /\ call.out.post.sent = 0
                 /\ ~call.out.success

\* an order was sent after a risk check that passed with a warning
C1_Witness ==
    /\ OrderCall
    /\ Contains(call.out.events, "POST")
    /\ call.out.risk.passed
    /\ call.out.risk.warnings # <<>>

\* --- what the hard checks of check_trade are, read off the call's inputs ---
ViolationOrder ==
    << "below_minimum", "exceeds_maximum", "leverage", "max_positions", "exposure",
       "concentration", "daily_loss" >>

\* x / tv > bp / 10000 and x / tv >= bp / 10000 over the reals, for tv # 0
RatioAbove(x, tv, bp) ==
    \/ tv > 0 /\ x * 10000 > bp * tv
    \/ tv < 0 /\ x * 10000 < bp * tv
RatioAtLeast(x, tv, bp) ==
    \/ tv > 0 /\ x * 10000 >= bp * tv
    \/ tv < 0 /\ x * 10000 =< bp * tv

\* the limits in force: the override when one was passed, else the defaults
LimitsInForce(c) ==
    IF c.limits_override.present THEN c.limits_override.limits ELSE RiskLimits

\* today's realized loss in the trade log (0 when the day is not a loss)
LossToday == IF SumPnl(position_closes) < 0 THEN 0 - SumPnl(position_closes) ELSE 0

\* does hard check `tag` fail for call c?  Checks 4-7 read the portfolio.
HardCheckFails(tag, c) ==
    LET l  == LimitsInForce(c)
        p  == c.env.pf.snap
        tv == p.total_invested + p.total_pnl + p.cash_available
    IN  CASE tag = "below_minimum"   -> c.amount < l.min_trade_usd
          [] tag = "exceeds_maximum" -> c.amount > l.max_single_trade_usd
          [] tag = "leverage"        -> c.leverage > l.max_leverage
          [] tag = "max_positions"   -> p.n_positions >= l.max_open_positions
          [] tag = "exposure"        ->
                 RatioAbove(p.total_invested + c.amount, tv, l.max_total_exposure_pct)
          [] tag = "concentration"   -> RatioAbove(c.amount, tv, l.max_position_pct)
          [] tag = "daily_loss"      ->
                 LossToday > 0 /\ RatioAtLeast(LossToday, tv, l.max_daily_loss_pct)

\* the failing checks among `order`, in that order
FailingChecks(order, c) ==
    LET Fails(tag) == HardCheckFails(tag, c) IN SelectSeq(order, Fails)

\* C2 as stated: whenever the portfolio fetch succeeds, violations holds
\* exactly one entry per failing hard check and none for a check that holds,
\* in the fixed order, under the limits in force.
C2_ViolationsAreTheFailingChecks ==
    (RiskCall /\ call.env.pf.ok) =>
        call.out.risk.violations = FailingChecks(ViolationOrder, call)

\* C2, amended: the same whenever the portfolio fetch and the trade-log read
\* both succeed.
C2_ViolationsAreTheFailingChecksWhenLogRead ==
    (RiskCall /\ call.env.pf.ok /\ call.env.stats.ok) =>
        call.out.risk.violations = FailingChecks(ViolationOrder, call)

\* several checks fail at once and all are reported, the daily loss included
C2_Witness ==
    /\ RiskCall /\ call.env.pf.ok /\ call.env.stats.ok
    /\ Len(call.out.risk.violations) >= 3
    /\ Contains(call.out.risk.violations, "below_minimum")
    /\ Contains(call.out.risk.violations, "exceeds_maximum")
    /\ Contains(call.out.risk.violations, "daily_loss")

\* C3: on every return path of check_trade passed holds exactly when
\* violations is empty (warnings never make it false), and the summary
\* starts with REJECTED exactly when passed is false.
C3_PassedIffNoViolations ==
    RiskCall =>
        /\ call.out.risk.passed <=> (call.out.risk.violations = <<>>)
        /\ (Summary(call.out.risk).head = "REJECTED") <=> ~call.out.risk.passed
        /\ (Summary(call.out.risk).head = "PASSED") <=> call.out.risk.passed

\* the final return passes a trade that carries two warnings
C3_Witness ==
    /\ RiskCall /\ call.env.pf.ok
    /\ call.out.risk.passed
    /\ Contains(call.out.risk.warnings, "high_exposure")
    /\ Contains(call.out.risk.warnings, "short")

\* C4: when the portfolio fetch raises, check_trade does not raise; its
\* violations are those of checks 1-3 (below minimum, above maximum,
\* leverage), its warnings are exactly the one fetch-failure warning, and
\* passed holds exactly when none of checks 1-3 fired.
C4_FetchFailureIsAWarning ==
    (RiskCall /\ ~call.env.pf.ok) =>
        LET first == FailingChecks(<<"below_minimum", "exceeds_maximum", "leverage">>, call)
        IN  /\ ~call.out.risk.raised
            /\ call.out.risk.violations = first
            /\ call.out.risk.warnings = <<"fetch_failed">>
            /\ call.out.risk.passed <=> (first = <<>>)

\* the fetch failed on a leveraged short trade that breaks checks 1-3
C4_Witness ==
    /\ RiskCall /\ ~call.env.pf.ok
    /\ call.direction = "SELL"
    /\ call.out.risk.violations = <<"below_minimum", "leverage">>
    /\ ~call.out.risk.passed

(***************************************************************************)
(* Properties of calculate_position_size (under SpecSizing).  ps_in holds  *)
(* the arguments and ps_out the returned dict.                             *)
(***************************************************************************)
Sized == ps_out.called
SizedOk == ps_out.called /\ ~ps_out.result.error

\* C5 as stated: calculate_position_size returns an error when
\* portfolio_value <= 0, when price <= 0, when atr <= 0 and sl_distance_pct is
\* absent, and when sl_distance_pct is supplied but <= 0 whatever the atr;
\* with atr <= 0 and sl_distance_pct > 0 it succeeds.
C5_SizingRejectsBadInputs ==
    Sized =>
        LET a      == ps_in
            sl     == a.sl_distance_pct
            bad_pv == RLe(a.portfolio_value, R(0)) \/ RLe(a.price, R(0))
        IN  /\ bad_pv => ps_out.result.error
            /\ (RLe(a.atr, R(0)) /\ ~sl.given) => ps_out.result.error
            /\ (sl.given /\ RLe(sl.v, R(0))) => ps_out.result.error
            /\ (~bad_pv /\ RLe(a.atr, R(0)) /\ sl.given /\ RLt(R(0), sl.v)) =>
                   ~ps_out.result.error

\* --- the three caps as section 4.2 states them, from the arguments and the
\* conviction the result reports ---
StatedRiskPct(c) ==
    CASE c = "strong" -> Rat(2, 100) [] c = "moderate" -> Rat(15, 1000) [] c = "weak" -> Rat(1, 100)
StatedMaxConcentration(c) ==
    CASE c = "strong" -> Rat(8, 100) [] c = "moderate" -> Rat(5, 100) [] c = "weak" -> Rat(3, 100)

\* the stop distance as a fraction: sl_distance_pct when supplied and
\* positive, else 2 x atr / price clamped into [1%, 15%]
StatedSlFraction(a) ==
    IF a.sl_distance_pct.given /\ RLt(R(0), a.sl_distance_pct.v)
    THEN a.sl_distance_pct.v
    ELSE LET raw == RDiv(RMul(R(2), a.atr), a.price)
         IN  IF RLt(raw, Rat(1, 100)) THEN Rat(1, 100)
             ELSE IF RLt(Rat(15, 100), raw) THEN Rat(15, 100) ELSE raw

StatedRiskBudget(a, c) == RMul(a.portfolio_value, StatedRiskPct(c))
StatedRiskBased(a, c) == RDiv(StatedRiskBudget(a, c), StatedSlFraction(a))
StatedConcentrationCap(a, c) == RMul(a.portfolio_value, StatedMaxConcentration(c))
StatedUsableCash(a) ==
    IF RLt(a.cash_available, R(200)) THEN R(0) ELSE RSub(a.cash_available, R(200))

\* a reported dollar figure (in cents) as a number
Dollars(cents) == Rat(cents, 100)

\* C6 as stated: the returned amount never exceeds the risk-based amount, the
\* concentration cap or the usable cash; the reported actual_risk never
\* exceeds risk_budget; with cash_available = 250 the amount is <= 50.
C6_AmountWithinCaps ==
    SizedOk =>
        LET a == ps_in
            r == ps_out.result
        IN  /\ RLe(Dollars(r.amount), StatedRiskBased(a, r.conviction))
            /\ RLe(Dollars(r.amount), StatedConcentrationCap(a, r.conviction))
            /\ RLe(Dollars(r.amount), StatedUsableCash(a))
            /\ r.actual_risk <= r.risk_budget
            /\ REq(a.cash_available, R(250)) => r.amount <= 5000

\* C6, amended: the amount before rounding never exceeds any of the three
\* caps, and the returned amount (rounded to cents) never exceeds any cap
\* rounded to cents; the reported actual_risk never exceeds risk_budget; with
\* cash_available = 250 the amount is <= 50.
C6_AmountWithinCapsToTheCent ==
    SizedOk =>
        LET a == ps_in
            r == ps_out.result
        IN  /\ RLe(r.local_amount, StatedRiskBased(a, r.conviction))
            /\ RLe(r.local_amount, StatedConcentrationCap(a, r.conviction))
            /\ RLe(r.local_amount, StatedUsableCash(a))
            /\ r.amount <= Cents(StatedRiskBased(a, r.conviction))
            /\ r.amount <= Cents(StatedConcentrationCap(a, r.conviction))
            /\ r.amount <= Cents(StatedUsableCash(a))
            /\ r.actual_risk <= r.risk_budget
            /\ REq(a.cash_available, R(250)) => r.amount <= 5000

\* the cash cap binds at exactly $50 with cash_available = 250
C6_Witness ==
    /\ SizedOk
    /\ REq(ps_in.cash_available, R(250))
    /\ ps_out.result.amount = 5000
    /\ ps_out.result.binding_constraint = "cash"

\* the amount the three caps and the halving give, before the $50 floor
StatedComputed(a, c) ==
    LET least == RMin(StatedRiskBased(a, c),
                      RMin(StatedConcentrationCap(a, c), StatedUsableCash(a)))
    IN  IF RLt(Rat(80, 100), a.current_exposure_pct) THEN RDiv(least, R(2)) ELSE least

\* the cap that determined the amount
StatedBinding(a, c) ==
    LET rb == StatedRiskBased(a, c)
        cc == StatedConcentrationCap(a, c)
        uc == StatedUsableCash(a)
    IN  (IF RLt(uc, rb) /\ RLt(uc, cc) THEN "cash"
         ELSE IF RLe(rb, cc) THEN "risk" ELSE "concentration")
        \o (IF RLt(Rat(80, 100), a.current_exposure_pct) THEN "+high_exposure" ELSE "")

\* C7: the returned amount is 0 or at least 50; it is 0 exactly when the
\* computed amount (after the cash cap and the halving) is below $50, and
\* then binding_constraint is 'below_minimum' with a reason; otherwise
\* binding_constraint names the cap that determined the amount, with
\* '+high_exposure' appended exactly when current_exposure_pct > 0.80.
C7_FloorAndBindingConstraint ==
    SizedOk =>
        LET a == ps_in
            r == ps_out.result
        IN  /\ r.amount = 0 \/ r.amount >= 5000
            /\ r.amount = 0 <=> RLt(StatedComputed(a, r.conviction), R(50))
            /\ r.amount = 0 => r.binding_constraint = "below_minimum" /\ r.has_reason
            /\ r.amount # 0 =>
                   /\ r.binding_constraint = StatedBinding(a, r.conviction)
                   /\ ~r.has_reason

\* a $50 amount halved by high exposure falls under the floor
C7_Witness ==
    /\ SizedOk
    /\ RLt(Rat(80, 100), ps_in.current_exposure_pct)
    /\ ps_out.result.amount = 0
    /\ ps_out.result.binding_constraint = "below_minimum"
    /\ ps_out.result.has_reason
    /\ REq(ps_out.result.local_amount, R(25))

\* the call that differs from the one made only in current_exposure_pct
SizedAt(e) == calculate_position_size([ps_in EXCEPT !.current_exposure_pct = e])

LowExposure(e) == RLe(e, Rat(80, 100))

\* C8 as stated: of two calls differing only in current_exposure_pct, one at
\* or below 0.80 and one above, the second returns half the amount of the
\* first (0 when that half is below $50); at exactly 0.80 nothing is halved.
C8_HighExposureHalves ==
    (SizedOk /\ LowExposure(ps_in.current_exposure_pct)) =>
        \A e \in ExposureValues :
            IF LowExposure(e) THEN SizedAt(e) = ps_out.result
            ELSE IF ps_out.result.amount < 10000 THEN SizedAt(e).amount = 0
            ELSE 2 * SizedAt(e).amount = ps_out.result.amount

\* C8, amended: the second call returns half of the first call's amount
\* before rounding, rounded to cents (so twice the second differs from the
\* first by at most one cent), and 0 when that half is below $50; at exactly
\* 0.80 nothing is halved, so the result equals that of any lower exposure.
C8_HighExposureHalvesBeforeRounding ==
    (SizedOk /\ LowExposure(ps_in.current_exposure_pct)) =>
        \A e \in ExposureValues :
            IF LowExposure(e) THEN SizedAt(e) = ps_out.result
            ELSE LET half == RDiv(ps_out.result.local_amount, R(2))
                     hi   == SizedAt(e)
                 IN  /\ ~hi.error
                     /\ REq(hi.local_amount, half)
                     /\ hi.amount = (IF RLt(half, R(50)) THEN 0 ELSE Cents(half))
                     /\ hi.amount # 0 => Abs(2 * hi.amount - ps_out.result.amount) <= 1

\* a call at exactly 0.80 whose amount, $150.03, has no exact half in cents
C8_Witness ==
    /\ SizedOk
    /\ REq(ps_in.current_exposure_pct, Rat(80, 100))
    /\ ps_out.result.amount = 15003
    /\ SizedAt(Rat(81, 100)).amount = 7502

(***************************************************************************)
(* Properties of calculate_atr_stops (under SpecStops) and of the input    *)
(* guards of both stop calculators (under SpecStopCalls).                  *)
(***************************************************************************)
StopsValid == st_out.called /\ RLt(R(0), st_in.price) /\ RLt(R(0), st_in.atr)

\* 100 * atr * sl_multiplier / price clamped into [min_sl_pct, max_sl_pct]
StatedSlPct(a) ==
    LET raw == RDiv(RMul(R(100), RMul(a.atr, a.sl_multiplier)), a.price)
    IN  IF RLt(raw, a.min_sl_pct) THEN a.min_sl_pct
        ELSE IF RLt(a.max_sl_pct, raw) THEN a.max_sl_pct ELSE raw

StatedBuy(a) == a.direction \in {"BUY", "buy"}

\* the reported figures as numbers
Rate(units) == Rat(units, 10000)
Pct(units) == Rat(units, 100)

\* C9 as stated: for price > 0 and atr > 0 the returned sl_pct equals the
\* clamped percentage, the stop lies exactly sl_pct percent of price away
\* from price, the take-profit exactly atr * tp_multiplier away, and for BUY
\* the stop is below and the take-profit above the price (SELL: the reverse).
C9_AtrStopsExact ==
    StopsValid =>
        LET a == st_in
            r == st_out.result
        IN  /\ ~r.error /\ r.has_rates
            /\ REq(Pct(r.sl_pct), StatedSlPct(a))
            /\ REq(RAbs(RSub(a.price, Rate(r.sl_rate))),
                   RDiv(RMul(a.price, Pct(r.sl_pct)), R(100)))
            /\ REq(RAbs(RSub(a.price, Rate(r.tp_rate))), RMul(a.atr, a.tp_multiplier))
            /\ IF StatedBuy(a)
               THEN RLt(Rate(r.sl_rate), a.price) /\ RLt(a.price, Rate(r.tp_rate))
               ELSE RLt(a.price, Rate(r.sl_rate)) /\ RLt(Rate(r.tp_rate), a.price)

\* C9, amended: for price > 0 and atr > 0 the returned sl_pct is the clamped
\* percentage rounded to 2 decimals; the stop is price minus (BUY) or plus
\* (SELL) the clamped percentage of price, rounded to 4 decimals; the
\* take-profit is price plus (BUY) or minus (SELL) atr * tp_multiplier,
\* unclamped, rounded to 4 decimals; so for BUY the stop is not above and the
\* take-profit not below the price, for SELL the reverse.
C9_AtrStopsUpToRounding ==
    StopsValid =>
        LET a    == st_in
            r    == st_out.result
            sl_d == RDiv(RMul(a.price, StatedSlPct(a)), R(100))
            tp_d == RMul(a.atr, a.tp_multiplier)
        IN  /\ ~r.error /\ r.has_rates
            /\ r.sl_pct = RoundUnits(StatedSlPct(a), 100)
            /\ IF StatedBuy(a)
               THEN /\ r.sl_rate = RoundUnits(RSub(a.price, sl_d), 10000)
                    /\ r.tp_rate = RoundUnits(RAdd(a.price, tp_d), 10000)
                    /\ RLe(Rate(r.sl_rate), a.price) /\ RLe(a.price, Rate(r.tp_rate))
               ELSE /\ r.sl_rate = RoundUnits(RAdd(a.price, sl_d), 10000)
                    /\ r.tp_rate = RoundUnits(RSub(a.price, tp_d), 10000)
                    /\ RLe(a.price, Rate(r.sl_rate)) /\ RLe(Rate(r.tp_rate), a.price)

\* a BUY whose raw stop distance (80% of price) is clamped to 15%, while the
\* take-profit stays 3 ATR away
C9_Witness ==
    /\ StopsValid
    /\ st_in.direction = "BUY" /\ REq(st_in.price, R(100)) /\ REq(st_in.atr, R(40))
    /\ REq(st_in.max_sl_pct, R(15))
    /\ st_out.result.sl_pct = 1500
    /\ st_out.result.sl_rate = 850000
    /\ st_out.result.tp_rate = 2200000

\* C10: calculate_atr_stops returns an error result without sl_rate and
\* tp_rate exactly when price <= 0 or atr <= 0; calculate_chandelier_stops
\* returns an error result whenever price <= 0 or the series has fewer than
\* max(n, supertrend_n) bars (the empty series included); neither raises.
C10_StopGuards ==
    /\ st_out.called =>
         LET bad == RLe(st_in.price, R(0)) \/ RLe(st_in.atr, R(0))
         IN  /\ ~st_out.result.raised
             /\ st_out.result.error <=> bad
             /\ st_out.result.error => ~st_out.result.has_rates
             /\ ~st_out.result.error => st_out.result.has_rates
    /\ ch_out.called =>
         LET need == IF ch_in.n >= ch_in.supertrend_n THEN ch_in.n ELSE ch_in.supertrend_n
             bad  == RLe(ch_in.price, R(0)) \/ Len(ch_in.df) < need
         IN  bad => (ch_out.result.error /\ ~ch_out.result.raised)

\* the empty series with a valid price is answered by an error result
C10_Witness ==
    /\ ch_out.called
    /\ ch_in.df = <<>>
    /\ RLt(R(0), ch_in.price)
    /\ ch_out.result.error
    /\ ~ch_out.result.raised

(***************************************************************************)
(* Properties of calculate_chandelier_stops (under SpecChandelier).        *)
(***************************************************************************)
ChandelierOk == ch_out.called /\ ~ch_out.result.error /\ ~ch_out.result.raised

\* |price - raw stop| / price in percent, clamped into [min_sl_pct, max_sl_pct]
StatedChandelierPct(a) ==
    LET raw == RMul(RDiv(RAbs(RSub(a.price, RawSl(a))), a.price), R(100))
    IN  IF RLt(raw, a.min_sl_pct) THEN a.min_sl_pct
        ELSE IF RLt(a.max_sl_pct, raw) THEN a.max_sl_pct ELSE raw

\* C11 as stated: every non-error result has min_sl_pct <= sl_pct <=
\* max_sl_pct and a stop on the protective side of the price (below for BUY,
\* above for SELL) at a distance of exactly sl_pct percent of price, also
\* when the raw Chandelier stop lies on the wrong side of the price.
C11_ChandelierStopExact ==
    ChandelierOk =>
        LET a == ch_in
            r == ch_out.result
        IN  /\ RLe(a.min_sl_pct, Pct(r.sl_pct)) /\ RLe(Pct(r.sl_pct), a.max_sl_pct)
            /\ IF StatedBuy(a) THEN RLt(Rate(r.sl_rate), a.price)
                               ELSE RLt(a.price, Rate(r.sl_rate))
            /\ REq(RAbs(RSub(a.price, Rate(r.sl_rate))),
                   RDiv(RMul(a.price, Pct(r.sl_pct)), R(100)))

\* C11, amended: every non-error result has min_sl_pct <= sl_pct <=
\* max_sl_pct, where sl_pct is the clamped distance percentage rounded to 2
\* decimals, and a stop equal to price minus (BUY) or plus (SELL) the
\* clamped, unrounded percentage of price, rounded to 4 decimals; so the
\* stop is never above the price for BUY and never below it for SELL, also
\* when the raw Chandelier stop lies on the wrong side of the price.
C11_ChandelierStopUpToRounding ==
    ChandelierOk =>
        LET a == ch_in
            r == ch_out.result
            d == RDiv(RMul(a.price, StatedChandelierPct(a)), R(100))
        IN  /\ RLe(a.min_sl_pct, Pct(r.sl_pct)) /\ RLe(Pct(r.sl_pct), a.max_sl_pct)
            /\ r.sl_pct = RoundUnits(StatedChandelierPct(a), 100)
            /\ IF StatedBuy(a)
               THEN /\ r.sl_rate = RoundUnits(RSub(a.price, d), 10000)
                    /\ RLe(Rate(r.sl_rate), a.price)
               ELSE /\ r.sl_rate = RoundUnits(RAdd(a.price, d), 10000)
                    /\ RLe(a.price, Rate(r.sl_rate))

\* a BUY whose raw long stop lies above the price
C11_Witness ==
    /\ ChandelierOk
    /\ ch_in.direction = "BUY"
    /\ RLt(ch_in.price, RawSl(ch_in))
    /\ RLt(Rate(ch_out.result.sl_rate), ch_in.price)

\* --- check_trade against the snapshot it fetched ---
FetchedSnapshot == RiskCall /\ call.env.pf.ok
SnapshotValue ==
    call.env.pf.snap.total_invested + call.env.pf.snap.total_pnl + call.env.pf.snap.cash_available
NewExposureAbove(bp) ==
    (call.env.pf.snap.total_invested + call.amount) * 10000 > bp * SnapshotValue
ExposureViolated == Contains(call.out.risk.violations, "exposure")
ExposureWarned == Contains(call.out.risk.warnings, "high_exposure")

\* C16: when the portfolio was fetched and total_value > 0, the exposure
\* violation is recorded exactly when (total_invested + amount) / total_value
\* is above max_total_exposure_pct of the limits in force, and the
\* high-exposure warning exactly when that ratio is above 0.80, whether or not
\* the violation was recorded.
C16_ExposureViolationAndWarning ==
    FetchedSnapshot /\ SnapshotValue > 0 =>
        /\ ExposureViolated <=> NewExposureAbove(LimitsInForce(call).max_total_exposure_pct)
        /\ ExposureWarned <=> NewExposureAbove(8000)
        /\ Count(call.out.risk.violations, "exposure") =< 1
        /\ Count(call.out.risk.warnings, "high_exposure") =< 1

\* a call under the default limits that warns of an exposure above 0.80 and
\* records the violation as well
C16_Witness ==
    /\ FetchedSnapshot /\ SnapshotValue > 0
    /\ ~call.limits_override.present
    /\ ExposureViolated /\ ExposureWarned

DailyLossViolated == Contains(call.out.risk.violations, "daily_loss")
LossAtLeast(bp) == LossToday > 0 /\ LossToday * 10000 >= bp * SnapshotValue

\* C17: when the trade log is read, the daily-loss violation is recorded
\* exactly when total_value > 0, today's realized P&L is negative and
\* |loss| / total_value is at least max_daily_loss_pct (a loss exactly at the
\* limit rejects); when reading the trade log raises, nothing is raised to the
\* caller, no daily-loss violation is recorded, and the leverage and short
\* warnings are still in the returned result.
C17_DailyLoss ==
    FetchedSnapshot =>
        /\ ~call.out.risk.raised
        /\ call.env.stats.ok =>
              (DailyLossViolated <=>
                  SnapshotValue > 0 /\ LossAtLeast(LimitsInForce(call).max_daily_loss_pct))
        /\ ~call.env.stats.ok => ~DailyLossViolated
        /\ Contains(call.out.risk.warnings, "leveraged") <=> call.leverage > 1
        /\ Contains(call.out.risk.warnings, "short") <=> call.direction = "SELL"

\* a loss exactly at the limit in force rejects the trade
C17_Witness ==
    /\ FetchedSnapshot /\ call.env.stats.ok /\ SnapshotValue > 0
    /\ LossToday * 10000 = LimitsInForce(call).max_daily_loss_pct * SnapshotValue
    /\ DailyLossViolated /\ ~call.out.risk.passed

PortfolioChecks == {"max_positions", "exposure", "concentration"}
EarlyViolations == {"below_minimum", "exceeds_maximum", "leverage"}

\* C18: every call of check_trade, alone or inside open_position or
\* create_limit_order, fetches the portfolio exactly once, also when the size
\* or leverage checks have recorded violations; the checks that read the
\* portfolio are decided by the snapshot this fetch returned, and after a
\* failed fetch none of them is decided at all and the fetch is not repeated.
C18_OnePortfolioFetchPerCheck ==
    RiskCall =>
        /\ Count(call.out.risk.events, "get_portfolio") = 1
        /\ Count(call.out.events, "get_portfolio") = 1
        /\ call.env.pf.ok =>
              /\ \A tag \in PortfolioChecks :
                    Contains(call.out.risk.violations, tag) <=> HardCheckFails(tag, call)
              /\ ExposureWarned <=> SnapshotValue > 0 /\ NewExposureAbove(8000)
        /\ ~call.env.pf.ok =>
              /\ \A i \in 1..Len(call.out.risk.violations) :
                    call.out.risk.violations[i] \in EarlyViolations
              /\ ~ExposureWarned
              /\ ~Contains(call.out.events, "get_today_stats")

\* a call inside open_position or create_limit_order whose amount is above
\* the maximum and whose fetched snapshot fails the exposure check as well
C18_Witness ==
    /\ RiskCall /\ OrderCall /\ call.env.pf.ok
    /\ Contains(call.out.risk.violations, "exceeds_maximum")
    /\ Contains(call.out.risk.violations, "exposure")
    /\ Count(call.out.events, "get_portfolio") = 1

(***************************************************************************)
(* Properties of supertrend and chandelier_exit (under SpecIndicators).    *)
(* ind_in holds the df and the parameters, ind_out the returned series.    *)
(***************************************************************************)
SuperTrendDone == ind_out.fn = "supertrend"
ChandelierExitDone == ind_out.fn = "chandelier_exit"
Closes(i) == ind_in.df[i].close

\* bar i is past warmup: it and the bar before it both carry bands
PastWarmup(i) ==
    /\ i \in 2..Len(ind_in.df)
    /\ ~IsNaN(ind_out.ub[i - 1]) /\ ~IsNaN(ind_out.lb[i - 1])
    /\ ~IsNaN(ind_out.ub[i]) /\ ~IsNaN(ind_out.lb[i])

UpperReset(i) == RLt(ind_out.ub[i - 1], Closes(i - 1))
LowerReset(i) == RLt(Closes(i - 1), ind_out.lb[i - 1])

\* C12: at every bar past warmup the final upper band is at most the final
\* upper band of the bar before, unless the previous close was above that
\* band, and then it is the basic upper band of the bar; the final lower band
\* is at least the one before, unless the previous close was below it, and
\* then it is the basic lower band of the bar.
C12_BandLocking ==
    SuperTrendDone =>
        \A i \in 2..Len(ind_in.df) :
            PastWarmup(i) =>
                /\ IF UpperReset(i)
                   THEN ind_out.ub[i] = ind_out.ub_basic[i]
                   ELSE RLe(ind_out.ub[i], ind_out.ub[i - 1])
                /\ IF LowerReset(i)
                   THEN ind_out.lb[i] = ind_out.lb_basic[i]
                   ELSE RLe(ind_out.lb[i - 1], ind_out.lb[i])

\* an upper band reset upwards after the close broke above it, and at another
\* bar an upper band held below its basic value
C12_Witness ==
    /\ SuperTrendDone
    /\ \E i \in 2..Len(ind_in.df) :
          PastWarmup(i) /\ UpperReset(i) /\ RLt(ind_out.ub[i - 1], ind_out.ub[i])
    /\ \E i \in 2..Len(ind_in.df) :
          PastWarmup(i) /\ ~UpperReset(i) /\ RLt(ind_out.ub[i], ind_out.ub_basic[i])

FlipsUp(i) == ind_out.direction[i - 1] = 0 - 1 /\ RLt(ind_out.ub[i], Closes(i))
FlipsDown(i) == ind_out.direction[i - 1] = 1 /\ RLt(Closes(i), ind_out.lb[i])

\* C13: the direction is +1 or -1 at every bar, +1 at the first bar and at
\* every bar without bands; it differs from the direction of the bar before
\* exactly when the trend was bearish and the close is above the final upper
\* band of the bar, or the trend was bullish and the close is below the final
\* lower band of the bar; the line is the final lower band where the direction
\* is +1 and the final upper band where it is -1.
C13_DirectionAndLine ==
    SuperTrendDone =>
        /\ ind_out.direction[1] = 1
        /\ \A i \in 1..Len(ind_in.df) :
              /\ ind_out.direction[i] \in {1, 0 - 1}
              /\ IsNaN(ind_out.ub[i]) \/ IsNaN(ind_out.lb[i]) => ind_out.direction[i] = 1
              /\ ind_out.line[i] =
                    IF ind_out.direction[i] = 1 THEN ind_out.lb[i] ELSE ind_out.ub[i]
        /\ \A i \in 2..Len(ind_in.df) :
              ind_out.direction[i] # ind_out.direction[i - 1] <=> FlipsUp(i) \/ FlipsDown(i)

\* a series that turns bearish at one bar and bullish again at a later one
C13_Witness ==
    /\ SuperTrendDone
    /\ \E i, k \in 2..Len(ind_in.df) :
          /\ i < k
          /\ FlipsDown(i) /\ ind_out.direction[i] = 0 - 1
          /\ FlipsUp(k) /\ ind_out.direction[k] = 1

\* a price series: every bar reaches one unit either side of its close
IsPriceSeries == \A i \in 1..Len(ind_in.df) :
    /\ ind_in.df[i].high = RAdd(Closes(i), R(1))
    /\ ind_in.df[i].low = RSub(Closes(i), R(1))
Increasing(k) == \A i \in 2..k : RLt(Closes(i - 1), Closes(i))
Last == Len(ind_in.df)

\* an increasing price series followed by one bar that closes lower
Pullback ==
    /\ SuperTrendDone /\ IsPriceSeries
    /\ PastWarmup(Last) /\ Increasing(Last - 1) /\ RLt(Closes(Last), Closes(Last - 1))

LowerBandRises ==
    SuperTrendDone /\ IsPriceSeries /\ Increasing(Last) =>
        \A i \in 2..Last :
            PastWarmup(i) => ind_out.direction[i] = 1 /\ RLe(ind_out.lb[i - 1], ind_out.lb[i])

HighestHigh(i) ==
    LET js == (i - ind_in.n + 1)..i
    IN  CHOOSE h \in {ind_in.df[j].high : j \in js} :
            \A j \in js : RLe(ind_in.df[j].high, h)
AtrAt(i) == Atr(ind_in.df, ind_in.n, i)
LongStopDefined(i) == i \in 1..Last /\ ~IsNaN(ind_out.long_stop[i])
ConsecutiveStops(i) == i \in 2..Last /\ LongStopDefined(i - 1) /\ LongStopDefined(i)

RegimeDone == rg_out.called
SpyOk == rg_in.spy.kind = "ok"
QqqOk == rg_in.qqq.kind = "ok"

\* the five signals, read off the answers
StatedSignals ==
    << SpyOk /\ rg_in.spy.trend = "BULLISH",
       QqqOk /\ rg_in.qqq.trend = "BULLISH",
       SpyOk /\ RLt(rg_in.spy.sma_20, rg_in.spy.price),
       SpyOk /\ RLt(rg_in.spy.sma_50, rg_in.spy.price),
       rg_in.vix.present /\ RLt(rg_in.vix.value, R(25)) >>
StatedBullScore == Cardinality({i \in 1..5 : StatedSignals[i]})
StatedBias ==
    IF StatedBullScore >= 4 THEN "RISK_ON"
    ELSE IF StatedBullScore >= 2 THEN "CAUTIOUS" ELSE "RISK_OFF"

\* C19: when at least one index analysis succeeds, the bias is RISK_ON for
\* four or five true signals among {SPY trend BULLISH, QQQ trend BULLISH, SPY
\* price above SMA20, SPY price above SMA50, VIX available and below 25},
\* CAUTIOUS for two or three and RISK_OFF for none or one.
C19_BiasFromBullScore ==
    RegimeDone /\ (SpyOk \/ QqqOk) /\ ~rg_out.raised =>
        /\ rg_out.scored
        /\ rg_out.bull_score = StatedBullScore
        /\ rg_out.bias = StatedBias

\* C20: whatever the three fetches answer, a result is returned that holds a
\* bias and the vix sub-object; without a VIX value that sub-object has value
\* None, regime UNKNOWN and sizing_adjustment 1.0 and an error names VIX; when
\* neither index analysis succeeds the bias is UNKNOWN, there is no spy and no
\* qqq summary and no bull score.
C20_RegimeAlwaysReturned ==
    RegimeDone =>
        /\ ~rg_out.raised
        /\ rg_out.has_bias /\ rg_out.has_vix
        /\ ~rg_in.vix.present =>
              /\ ~rg_out.vix.has_value
              /\ rg_out.vix.regime = "UNKNOWN"
              /\ rg_out.vix.sizing_adjustment = Rat(1, 1)
              /\ Contains(rg_out.errors, "VIX")
        /\ ~SpyOk /\ ~QqqOk =>
              /\ rg_out.bias = "UNKNOWN"
              /\ ~rg_out.has_spy /\ ~rg_out.has_qqq
              /\ ~rg_out.scored

\* C21 as stated: when at least one of the two index analyses fails, the
\* returned bias is UNKNOWN.
C21_UnknownWhenAnIndexFails ==
    RegimeDone /\ ~rg_out.raised /\ (~SpyOk \/ ~QqqOk) => rg_out.bias = "UNKNOWN"

\* C21: in every returned result the bias is UNKNOWN exactly when neither
\* index analysis succeeded; with one of the two available the bias is scored
\* from the signals of the available index and the VIX.
C21_UnknownOnlyWhenBothIndicesFail ==
    RegimeDone /\ ~rg_out.raised =>
        /\ rg_out.bias = "UNKNOWN" <=> ~SpyOk /\ ~QqqOk
        /\ rg_out.scored <=> SpyOk \/ QqqOk
        /\ rg_out.scored => rg_out.bias \in {"RISK_ON", "CAUTIOUS", "RISK_OFF"}
        /\ rg_out.has_spy <=> SpyOk
        /\ rg_out.has_qqq <=> QqqOk

\* SPY analysed, QQQ not: the bias is scored all the same
C21_Witness ==
    /\ RegimeDone /\ ~rg_out.raised
    /\ SpyOk /\ rg_in.qqq.kind = "error"
    /\ Contains(rg_out.errors, "QQQ")
    /\ rg_out.bias = "CAUTIOUS"

\* the bucket and the multiplier of a VIX value
StatedBucket(v) ==
    CASE RLt(v, R(13)) -> <<"VERY_LOW", Rat(1, 1)>>
      [] RLe(R(13), v) /\ RLt(v, R(16)) -> <<"LOW", Rat(1, 1)>>
      [] RLe(R(16), v) /\ RLt(v, R(20)) -> <<"NORMAL", Rat(1, 1)>>
      [] RLe(R(20), v) /\ RLt(v, R(25)) -> <<"ELEVATED", Rat(3, 4)>>
      [] RLe(R(25), v) /\ RLt(v, R(30)) -> <<"HIGH", Rat(1, 2)>>
      [] RLe(R(30), v) -> <<"EXTREME", Rat(1, 4)>>
VixReported == RegimeDone /\ ~rg_out.raised /\ rg_in.vix.present

\* C22: a fetched VIX value is reported in the bucket of the table (below 13
\* VERY_LOW 1.0, 13 to below 16 LOW 1.0, 16 to below 20 NORMAL 1.0, 20 to
\* below 25 ELEVATED 0.75, 25 to below 30 HIGH 0.5, 30 and above EXTREME 0.25),
\* and no higher VIX value gets a larger sizing_adjustment.
C22_VixBuckets ==
    VixReported =>
        /\ rg_out.vix.regime = StatedBucket(rg_in.vix.value)[1]
        /\ rg_out.vix.sizing_adjustment = StatedBucket(rg_in.vix.value)[2]
        /\ \A w \in VixFetches :
              w.present /\ RLe(rg_in.vix.value, w.value) =>
                  RLe(VixEntry(w).sizing_adjustment, rg_out.vix.sizing_adjustment)

\* a VIX of exactly 25 is HIGH with half-size positions
C22_Witness ==
    /\ VixReported
    /\ rg_in.vix.value = R(25)
    /\ rg_out.vix.regime = "HIGH"
    /\ rg_out.vix.sizing_adjustment = Rat(1, 2)

(***************************************************************************)
(* Properties of ma_alignment and support_resistance (SpecLevels)          *)
(***************************************************************************)
MaDone == fn_in.kind = "ma" /\ fn_out # NoFnResult
LevelsDone == fn_in.kind = "sr" /\ fn_out # NoFnResult

IsNumber(x) == x.d > 0
Sma200Unavailable == fn_in.sma_200.d = 0 \/ fn_in.sma_200.d < 0
Above(a, b) == IsNumber(a) /\ IsNumber(b) /\ a.n * b.d > b.n * a.d
StatedTwoLayerStatus ==
    IF Above(fn_in.price, fn_in.ema_21) /\ Above(fn_in.ema_21, fn_in.sma_50)
    THEN "MOSTLY_BULLISH"
    ELSE IF Above(fn_in.ema_21, fn_in.price) /\ Above(fn_in.sma_50, fn_in.ema_21)
         THEN "MOSTLY_BEARISH"
         ELSE "MIXED"

\* C23: with sma_200 unavailable (NaN or None) ma_alignment returns without
\* raising, reports sma50_above_sma200 False, and takes the status from the
\* two remaining layers (never GOLDEN or DEATH).
C23_Sma200Unavailable ==
    MaDone /\ Sma200Unavailable =>
        /\ ~fn_out.raised
        /\ ~fn_out.sma50_above_sma200
        /\ fn_out.status = StatedTwoLayerStatus

\* the part of C23 the code keeps: a NaN sma_200 (what analyze_instrument passes)
C23_NanSma200 ==
    MaDone /\ fn_in.sma_200.d = 0 =>
        /\ ~fn_out.raised
        /\ ~fn_out.sma50_above_sma200
        /\ fn_out.status = StatedTwoLayerStatus

\* units of 0.0001 of a candidate level
Units(x) == (x.n * 10000) \div x.d
\* two levels (in units of 0.0001) no more than 2% of the lower one apart
Within2Pct(a, b) ==
    IF a =< b THEN (b - a) * 100 =< 2 * a ELSE (a - b) * 100 =< 2 * b
Elems(q) == {q[i] : i \in 1..Len(q)}
ResistanceCandidates == {Units(x) : x \in Elems(fn_out.candidates_high)}
SupportCandidates == {Units(x) : x \in Elems(fn_out.candidates_low)}
PairwiseApart(q) ==
    \A i, j \in 1..Len(q) : i # j => ~Within2Pct(q[i], q[j])

SetMax(S) == CHOOSE x \in S : \A y \in S : y =< x
SetMin(S) == CHOOSE x \in S : \A y \in S : x =< y

\* C24: levels within 2% of each other are merged and the more extreme one is
\* kept, the highest of the group for resistance and the lowest for support
\* (so the highest resistance candidate and the lowest support candidate are
\* always reported); no two reported levels are within 2% of each other.
C24_MergedKeepingTheExtreme ==
    LevelsDone =>
        /\ Elems(fn_out.resistance_levels) \subseteq ResistanceCandidates
        /\ Elems(fn_out.support_levels) \subseteq SupportCandidates
        /\ ResistanceCandidates # {} =>
               SetMax(ResistanceCandidates) \in Elems(fn_out.resistance_levels)
        /\ SupportCandidates # {} =>
               SetMin(SupportCandidates) \in Elems(fn_out.support_levels)
        /\ PairwiseApart(fn_out.resistance_levels)
        /\ PairwiseApart(fn_out.support_levels)

\* what _dedupe_levels does on both sides: a candidate is dropped into the
\* nearest reported level below it, so the lowest level of a group is kept
MergedDownwards(reported, candidates) ==
    /\ Elems(reported) \subseteq candidates
    /\ candidates # {} => SetMin(candidates) \in Elems(reported)
    /\ \A c \in candidates :
          \E k \in Elems(reported) : k =< c /\ Within2Pct(k, c)
    /\ PairwiseApart(reported)
C24_LowestOfGroupKept ==
    LevelsDone =>
        /\ MergedDownwards(fn_out.resistance_levels, ResistanceCandidates)
        /\ MergedDownwards(fn_out.support_levels, SupportCandidates)

(***************************************************************************)
(* Sized amounts against the single-trade limit (SpecSizing)               *)
(***************************************************************************)
\* check_trade's max_single_trade_usd violation under AggressiveRiskLimits,
\* for an amount in cents
SingleTradeLimitFires(cents) == cents > AggressiveRiskLimits.max_single_trade_usd * 100

\* C25: for a portfolio worth at most $62,500 no amount returned by
\* calculate_position_size exceeds AggressiveRiskLimits.max_single_trade_usd,
\* whatever the conviction and the other inputs: the amount is at most 8% of
\* the portfolio value.
C25_SizedAmountWithinSingleTradeLimit ==
    SizedOk =>
        /\ RLe(Dollars(ps_out.result.amount), RMul(ps_in.portfolio_value, Rat(8, 100)))
        /\ RLe(ps_in.portfolio_value, R(62500)) =>
               ~SingleTradeLimitFires(ps_out.result.amount)

\* a strong-conviction position of a $62,500 portfolio is sized at exactly
\* $5,000, the limit itself
C25_Witness ==
    /\ SizedOk
    /\ REq(ps_in.portfolio_value, R(62500))
    /\ ps_out.result.conviction = "strong"
    /\ ps_out.result.binding_constraint = "concentration"
    /\ ps_out.result.amount = 5000 * 100
    /\ ~SingleTradeLimitFires(ps_out.result.amount)

\* above $62,500 the limit can fire on a sized amount
C25_FiresAboveThreshold ==
    /\ SizedOk
    /\ REq(ps_in.portfolio_value, R(62501))
    /\ SingleTradeLimitFires(ps_out.result.amount)

(***************************************************************************)
(* Properties of open_position's order (Spec)                              *)
(***************************************************************************)
OpenCall == pc = "returned" /\ call.op = "open_position"
OrderBuilt == OpenCall /\ call.out.payload.built

\* the percentage take-profit in units of 0.0001: price x (1 + tp_pct/100)
\* for BUY, price x (1 - tp_pct/100) for SELL, tp_pct being the caller's value
\* or the default of the limits in force
StatedTpPct ==
    IF call.scene.tp_pct # 0 THEN call.scene.tp_pct
    ELSE IF call.limits_override.present
         THEN call.limits_override.limits.default_take_profit_pct
         ELSE SettingsRisk.default_take_profit_pct
StatedTakeProfit ==
    LET price == IF call.scene.rate = "ok" THEN 100 ELSE 0
    IN  IF call.direction = "BUY" THEN (price * 10000 * (100 + StatedTpPct)) \div 100
        ELSE (price * 10000 * (100 - StatedTpPct)) \div 100

\* C26: the TakeProfitRate of an order built by open_position is the
\* percentage-based rate, whichever stop-loss method was selected.
C26_TakeProfitIsPercentageBased ==
    OrderBuilt => call.out.payload.TakeProfitRate = StatedTakeProfit

\* the same for the orders whose stop-loss is not the ATR stop
C26_TakeProfitIsPercentageBasedWithoutAtr ==
    OrderBuilt /\ call.out.payload.sl_method # "atr" =>
        call.out.payload.TakeProfitRate = StatedTakeProfit

OpenReturned == OpenCall /\ ~call.out.raised

\* the rows the call appended to trade_log
RowsWritten == SubSeq(trade_log, call.log_before + 1, Len(trade_log))

\* the risk check was made and did not pass
RiskCheckFailed == call.out.checked /\ ~call.out.risk.passed

\* the order request was sent and the broker answered one of the attempts
\* with success
BrokerAccepted ==
    /\ call.out.payload.built
    /\ \E i \in 1..Len(call.env.resps) :
          /\ call.env.resps[i] = "ok"
          /\ \A j \in 1..(i - 1) : call.env.resps[j] = "retryable"

OrderRequests == Count(call.out.events, "POST")

\* C28: one open_position call sends the open-trade request to the broker at
\* most once, whatever the broker answers.
C28_OrderSentAtMostOnce ==
    OpenCall => OrderRequests =< 1

\* what the client does: up to MaxAttempts requests, a further one only after
\* a retryable answer (429, 500, 502, 503, 504)
C28_OrderSentAtMostMaxAttempts ==
    OpenCall =>
        /\ OrderRequests =< MaxAttempts
        /\ OrderRequests = call.out.post.sent
        /\ \A i \in 1..(OrderRequests - 1) : call.env.resps[i] = "retryable"

(***************************************************************************)
(* The daily-loss limit after close_position (Spec)                        *)
(***************************************************************************)
RECURSIVE EngineRealized(_)
\* the P&L realized today by the positions closed through close_position
EngineRealized(rows) ==
    IF rows = <<>> THEN 0
    ELSE (IF Head(rows).closed_by = "close_position" THEN Head(rows).realized ELSE 0)
         + EngineRealized(Tail(rows))

\* the loss realized through close_position is at least bp basis points of
\* the portfolio's total value
EngineLossAtLeast(bp) ==
    /\ EngineRealized(position_closes) < 0
    /\ (0 - EngineRealized(position_closes)) * 10000 >= bp * SnapshotValue

\* C29: once the positions closed today through close_position have realized
\* a loss of at least max_daily_loss_pct of the portfolio's total value, a
\* later check_trade (which reads the portfolio and the close log) is
\* rejected with the daily-loss violation.
C29_DailyLossAfterClosePosition ==
    FetchedSnapshot /\ call.env.stats.ok /\ SnapshotValue > 0
        /\ EngineLossAtLeast(LimitsInForce(call).max_daily_loss_pct) =>
            DailyLossViolated /\ ~call.out.risk.passed

\* what the code does: a row written by close_position carries no pnl, so
\* the closes made through it never add to the daily loss
C29_ClosePositionRecordsNoPnl ==
    /\ \A i \in 1..Len(position_closes) :
          position_closes[i].closed_by = "close_position" => ~position_closes[i].has_pnl
    /\ FetchedSnapshot /\ call.env.stats.ok /\ DailyLossViolated =>
          \E i \in 1..Len(position_closes) :
             position_closes[i].closed_by = "log_close" /\ position_closes[i].pnl < 0

(***************************************************************************)
(* Sign of the ATR stop rates (SpecStops)                                  *)
(***************************************************************************)
\* a valid call with the default multipliers (2.0, 3.0) and clamp bounds (1, 15)
StopsValidDefaults ==
    /\ StopsValid
    /\ st_in.sl_multiplier = R(2) /\ st_in.tp_multiplier = R(3)
    /\ st_in.min_sl_pct = R(1) /\ st_in.max_sl_pct = R(15)

\* C30: for a valid input (price > 0, atr > 0, default multipliers and clamp
\* bounds) both returned rates, sl_rate and tp_rate, are strictly positive,
\* for BUY and SELL alike.
C30_RatesArePositive ==
    StopsValidDefaults =>
        /\ st_out.result.has_rates
        /\ st_out.result.sl_rate > 0
        /\ st_out.result.tp_rate > 0

\* what holds: the stop-loss is positive on both sides and the take-profit
\* of a BUY is; the take-profit of a SELL is positive only while three ATRs
\* stay below the price
C30_RatesArePositiveExceptSellTakeProfit ==
    StopsValidDefaults =>
        /\ st_out.result.has_rates
        /\ st_out.result.sl_rate > 0
        /\ StatedBuy(st_in) => st_out.result.tp_rate > 0
        /\ ~StatedBuy(st_in) /\ RLt(RMul(R(3), st_in.atr), st_in.price)
               => st_out.result.tp_rate >= 0
        /\ ~StatedBuy(st_in) /\ RLt(st_in.price, RMul(R(3), st_in.atr))
               => st_out.result.tp_rate =< 0

====
